---- MODULE Spec2Model ----
(***************************************************************************)
(* Model of the rules service (src/src/services/RulesService.js): the      *)
(* privacy_rules / rule_audit_log / threat_patterns / rule_templates       *)
(* tables behind DatabaseService.query, the CRUD operations on rules, the  *)
(* rule evaluation engine, the requests in flight between their rule write *)
(* and their audit insert (pending) and between their template SELECT and  *)
(* their rule write (selected), the audit inserts that failed and were     *)
(* only logged (audit_errors), and the seed script (src/unnamed/part_001)  *)
(* with the number of statements it has run (seed_pc).                     *)
(*                                                                         *)
(* Representation of JavaScript / JSON values                              *)
(*   text, keyword, pattern, domain : sequence of one-character strings    *)
(*   action, rule_type, names       : TLA+ strings (compared, never cut)   *)
(*   object with optional keys      : record; an absent key is not in its  *)
(*                                    DOMAIN                               *)
(*   null                           : JsNull                               *)
(*   value of another JS type       : Num(n), Str(s), Arr(a), Bool(b)      *)
(*   a thrown exception             : Throw(name)                          *)
(***************************************************************************)
EXTENDS Integers, Sequences, FiniteSets, TLC

VARIABLES privacy_rules, rule_audit_log, now, nextId, last, threat_patterns, pending,
          audit_errors, seed_pc, rule_templates, selected

vars == <<privacy_rules, rule_audit_log, now, nextId, last, threat_patterns, pending,
          audit_errors, seed_pc, rule_templates, selected>>

-----------------------------------------------------------------------------
(* JavaScript values *)

JsNull == [null |-> TRUE]

IsNull(v) == DOMAIN v = {"null"}

Num(n) == [num |-> n]

Str(s) == [str |-> s]

Arr(a) == [arr |-> a]

Bool(b) == [bool |-> b]

IsStr(v) == DOMAIN v = {"str"}

IsArr(v) == DOMAIN v = {"arr"}

Has(obj, key) == key \in DOMAIN obj

\* the value is the JavaScript null (asked of values of any type)
IsJsNull(v) == ToString(v) = ToString(JsNull)

\* the value of a key that is neither absent (undefined) nor null: as a
\* statement parameter, undefined and null are both NULL
NotNull(obj, key) == Has(obj, key) /\ ~ IsJsNull(obj[key])

\* a || b takes b: the value is null, '', 0 or false (asked of values of any
\* type, a name or a priority written as it is or tagged)
IsFalsy(v) ==
  ToString(v) \in {ToString(JsNull), ToString(""), ToString(0), ToString(Str(<< >>)),
                   ToString(Num(0)), ToString(Bool(FALSE))}

\* obj.key || other
OrElse(obj, key, other) ==
  IF Has(obj, key) /\ ~ IsFalsy(obj[key]) THEN obj[key] ELSE other

\* for...of accepts arrays and strings (a string yields its characters)
Iterable(v) == IsArr(v) \/ IsStr(v)

Elements(v) == IF IsArr(v) THEN v.arr ELSE [i \in 1..Len(v.str) |-> Str(<<v.str[i]>>)]

\* !!v for an object or a tagged value: null, false, the empty string and
\* 0 are falsy, every object and array is truthy
JsTruthy(v) ==
  CASE IsNull(v) -> FALSE
    [] IsStr(v) -> Len(v.str) > 0
    [] DOMAIN v = {"num"} -> v.num # 0
    [] DOMAIN v = {"bool"} -> v.bool
    [] OTHER -> TRUE

Throw(name) == [throws |-> name]

Thrown(v) == DOMAIN v = {"throws"}

-----------------------------------------------------------------------------
(* Strings: String.prototype.toLowerCase / includes on ASCII text *)

UpperCase == <<"A","B","C","D","E","F","G","H","I","J","K","L","M",
               "N","O","P","Q","R","S","T","U","V","W","X","Y","Z">>

LowerCase == <<"a","b","c","d","e","f","g","h","i","j","k","l","m",
               "n","o","p","q","r","s","t","u","v","w","x","y","z">>

toLowerChar(c) ==
  IF \E i \in 1..26 : UpperCase[i] = c
  THEN LowerCase[CHOOSE i \in 1..26 : UpperCase[i] = c]
  ELSE c

toLowerCase(s) == [i \in 1..Len(s) |-> toLowerChar(s[i])]

\* s.includes(sub): sub occurs in s as a contiguous, case-sensitive substring
includes(s, sub) ==
  \E i \in 1..(Len(s) - Len(sub) + 1) : SubSeq(s, i, i + Len(sub) - 1) = sub

\* the class \s: space, tab, line feed, carriage return, form feed, the
\* vertical tab (U+000B), the no-break space (U+00A0), the ogham space mark
\* (U+1680) and the byte order mark (U+FEFF), the last four written as the
\* characters themselves.  The other members of the class (U+2000 to U+200A,
\* U+2028, U+2029, U+202F, U+205F, U+3000) cannot be written in a string of
\* this language, so no text here holds them
IsSpace(c) == c \in {" ", "\t", "\n", "\r", "\f", "", " ", " ", "﻿"}

\* the line terminators, which '.' does not match
IsLineTerminator(c) == c \in {"\n", "\r"}

-----------------------------------------------------------------------------
(* Regular expressions: new RegExp(source, flags) for sources made of      *)
(* literal characters, "." and backslash escapes of punctuation.  An       *)
(* unescaped "(" (there is no ")" to close it) or a trailing backslash is  *)
(* a SyntaxError.  A compiled expression is a sequence of tokens.          *)

RECURSIVE RegExpTokens(_, _)
RegExpTokens(src, i) ==
  IF i > Len(src) THEN << >>
  ELSE IF src[i] = "\\"
       THEN IF i = Len(src) THEN <<[bad |-> TRUE]>>
            ELSE <<[lit |-> src[i + 1]]>> \o RegExpTokens(src, i + 2)
       ELSE IF src[i] = "(" THEN <<[bad |-> TRUE]>>
       ELSE IF src[i] = "." THEN <<[any |-> TRUE]>> \o RegExpTokens(src, i + 1)
       ELSE <<[lit |-> src[i]]>> \o RegExpTokens(src, i + 1)

RegExpValid(src) ==
  LET toks == RegExpTokens(src, 1)
  IN  \A k \in 1..Len(toks) : ~ Has(toks[k], "bad")

TokenMatches(tok, c, ignoreCase) ==
  IF Has(tok, "any") THEN ~ IsLineTerminator(c)
  ELSE IF ignoreCase THEN toLowerChar(tok.lit) = toLowerChar(c)
  ELSE tok.lit = c

\* the expression matches the text starting exactly at position i
MatchAt(toks, text, i, ignoreCase) ==
  /\ i + Len(toks) - 1 <= Len(text)
  /\ \A k \in 1..Len(toks) : TokenMatches(toks[k], text[i + k - 1], ignoreCase)

\* text.match(pattern) with a non-global expression: is there a match at all
RegExpTest(src, text, ignoreCase) ==
  LET toks == RegExpTokens(src, 1)
  IN  \E i \in 1..(Len(text) + 1) : MatchAt(toks, text, i, ignoreCase)

\* text.match(regex) with the g flag: number of matches found scanning left
\* to right, each search resuming where the previous match ended (one
\* position further after an empty match)
RECURSIVE GlobalMatchCount(_, _, _, _)
GlobalMatchCount(toks, text, i, ignoreCase) ==
  IF i > Len(text) + 1 THEN 0
  ELSE IF MatchAt(toks, text, i, ignoreCase)
       THEN 1 + GlobalMatchCount(toks, text,
                                 IF Len(toks) = 0 THEN i + 1 ELSE i + Len(toks),
                                 ignoreCase)
       ELSE GlobalMatchCount(toks, text, i + 1, ignoreCase)

-----------------------------------------------------------------------------
(* message.text || message.content || '' *)

Truthy(s) == Len(s) > 0

\* the text field taken whenever it is present, the empty string included
MessageText_TextWhenPresent(message) ==
  IF Has(message, "text") THEN message.text
  ELSE IF Has(message, "content") THEN message.content
  ELSE << >>

MessageText(message) ==
  IF Has(message, "text") /\ Truthy(message.text) THEN message.text
  ELSE IF Has(message, "content") /\ Truthy(message.content) THEN message.content
  ELSE << >>

-----------------------------------------------------------------------------
(* extractUrls: text.match(/(https?:\/\/[^\s]+)/g) || [] *)

Http == <<"h", "t", "t", "p", ":", "/", "/">>

Https == <<"h", "t", "t", "p", "s", ":", "/", "/">>

StartsAt(text, i, prefix) ==
  /\ i + Len(prefix) - 1 <= Len(text)
  /\ SubSeq(text, i, i + Len(prefix) - 1) = prefix

\* length of the scheme prefix of a URL starting at i, 0 when there is none;
\* the prefix must be followed by at least one non-whitespace character
SchemeLenAt(text, i) ==
  LET ok(p) == /\ StartsAt(text, i, p)
               /\ i + Len(p) <= Len(text)
               /\ ~ IsSpace(text[i + Len(p)])
  IN  IF ok(Https) THEN Len(Https) ELSE IF ok(Http) THEN Len(Http) ELSE 0

\* last position of the run of non-whitespace characters that starts at i
RECURSIVE RunEnd(_, _)
RunEnd(text, i) ==
  IF i + 1 <= Len(text) /\ ~ IsSpace(text[i + 1]) THEN RunEnd(text, i + 1) ELSE i

RECURSIVE extractUrlsFrom(_, _)
extractUrlsFrom(text, i) ==
  IF i > Len(text) THEN << >>
  ELSE IF SchemeLenAt(text, i) > 0
       THEN LET e == RunEnd(text, i + SchemeLenAt(text, i))
            IN  <<SubSeq(text, i, e)>> \o extractUrlsFrom(text, e + 1)
       ELSE extractUrlsFrom(text, i + 1)

extractUrls(text) == extractUrlsFrom(text, 1)

-----------------------------------------------------------------------------
(* extractDomain: new URL(url).hostname, or the url itself when the URL     *)
(* constructor throws.  Covers URLs made of letters, ".", "/" and ":":     *)
(* slashes after the scheme are skipped, the host ends at the next "/", a  *)
(* ":" starts the port (which must be digits, so here must be empty), an   *)
(* empty host is invalid, and the host is lower-cased.                     *)

RECURSIVE SkipSlashes(_, _)
SkipSlashes(s, i) ==
  IF i <= Len(s) /\ s[i] = "/" THEN SkipSlashes(s, i + 1) ELSE i

RECURSIVE UntilChar(_, _, _)
UntilChar(s, i, stops) ==
  IF i <= Len(s) /\ s[i] \notin stops THEN UntilChar(s, i + 1, stops) ELSE i

extractDomain(url) ==
  LET schemeLen == IF StartsAt(url, 1, Https) THEN Len(Https) ELSE Len(Http)
      hostStart == SkipSlashes(url, schemeLen + 1)
      authEnd   == UntilChar(url, hostStart, {"/"})
      hostEnd   == UntilChar(url, hostStart, {"/", ":"})
      host      == SubSeq(url, hostStart, hostEnd - 1)
      port      == SubSeq(url, hostEnd + 1, authEnd - 1)
  IN  IF Len(host) = 0 \/ Len(port) > 0 THEN url ELSE toLowerCase(host)

-----------------------------------------------------------------------------
(* evaluateKeywordFilter *)

\* the for...of loop over keywords, from position i on
RECURSIVE KeywordLoop(_, _, _, _, _)
KeywordLoop(keywords, text, i, matchCount, matchedKeywords) ==
  IF i > Len(keywords)
  THEN [matchCount |-> matchCount, matchedKeywords |-> matchedKeywords]
  ELSE LET keyword == keywords[i]
       IN  IF ~ IsStr(keyword) THEN Throw("TypeError")
           ELSE LET source == toLowerCase(keyword.str)
                IN  IF ~ RegExpValid(source) THEN Throw("SyntaxError")
                    ELSE LET n == GlobalMatchCount(RegExpTokens(source, 1), text, 1, TRUE)
                         IN  KeywordLoop(keywords, text, i + 1, matchCount + n,
                                         IF n > 0 THEN Append(matchedKeywords, keyword.str)
                                                  ELSE matchedKeywords)

\* evaluateKeywordFilter returning the configured action also without a match
evaluateKeywordFilter_ActionAlways(config, message) ==
  IF IsNull(config) THEN Throw("TypeError")
  ELSE LET max_occurrences == IF Has(config, "max_occurrences") THEN config.max_occurrences ELSE 1
           action == IF Has(config, "action") THEN config.action ELSE "block"
           text   == MessageText(message)
       IN  IF ~ Has(config, "keywords") \/ ~ Iterable(config.keywords) THEN Throw("TypeError")
           ELSE LET loop == KeywordLoop(Elements(config.keywords), text, 1, 0, << >>)
                IN  IF Thrown(loop) THEN loop
                    ELSE LET matched == loop.matchCount >= max_occurrences
                         IN  [action  |-> action,
                              reason  |-> IF matched
                                          THEN [text |-> "Matched keywords",
                                                count |-> loop.matchCount,
                                                keywords |-> loop.matchedKeywords]
                                          ELSE [text |-> "No keyword matches"],
                              matched |-> matched]

\* evaluateKeywordFilter matching only above max_occurrences
evaluateKeywordFilter_Exceeds(config, message) ==
  IF IsNull(config) THEN Throw("TypeError")
  ELSE LET max_occurrences == IF Has(config, "max_occurrences") THEN config.max_occurrences ELSE 1
           action == IF Has(config, "action") THEN config.action ELSE "block"
           text   == MessageText(message)
       IN  IF ~ Has(config, "keywords") \/ ~ Iterable(config.keywords) THEN Throw("TypeError")
           ELSE LET loop == KeywordLoop(Elements(config.keywords), text, 1, 0, << >>)
                IN  IF Thrown(loop) THEN loop
                    ELSE LET matched == loop.matchCount > max_occurrences
                         IN  [action  |-> IF matched THEN action ELSE "allow",
                              reason  |-> IF matched
                                          THEN [text |-> "Matched keywords",
                                                count |-> loop.matchCount,
                                                keywords |-> loop.matchedKeywords]
                                          ELSE [text |-> "No keyword matches"],
                              matched |-> matched]

\* evaluateKeywordFilter reaching the threshold one occurrence early
evaluateKeywordFilter_OffByOne(config, message) ==
  IF IsNull(config) THEN Throw("TypeError")
  ELSE LET max_occurrences == IF Has(config, "max_occurrences") THEN config.max_occurrences ELSE 1
           action == IF Has(config, "action") THEN config.action ELSE "block"
           text   == MessageText(message)
       IN  IF ~ Has(config, "keywords") \/ ~ Iterable(config.keywords) THEN Throw("TypeError")
           ELSE LET loop == KeywordLoop(Elements(config.keywords), text, 1, 0, << >>)
                IN  IF Thrown(loop) THEN loop
                    ELSE LET matched == loop.matchCount + 1 >= max_occurrences
                         IN  [action  |-> IF matched THEN action ELSE "allow",
                              reason  |-> IF matched
                                          THEN [text |-> "Matched keywords",
                                                count |-> loop.matchCount,
                                                keywords |-> loop.matchedKeywords]
                                          ELSE [text |-> "No keyword matches"],
                              matched |-> matched]

evaluateKeywordFilter(config, message) ==
  IF IsNull(config) THEN Throw("TypeError")
  ELSE LET max_occurrences == IF Has(config, "max_occurrences") THEN config.max_occurrences ELSE 1
           action == IF Has(config, "action") THEN config.action ELSE "block"
           text   == MessageText(message)
       IN  IF ~ Has(config, "keywords") \/ ~ Iterable(config.keywords) THEN Throw("TypeError")
           ELSE LET loop == KeywordLoop(Elements(config.keywords), text, 1, 0, << >>)
                IN  IF Thrown(loop) THEN loop
                    ELSE LET matched == loop.matchCount >= max_occurrences
                         IN  [action  |-> IF matched THEN action ELSE "allow",
                              reason  |-> IF matched
                                          THEN [text |-> "Matched keywords",
                                                count |-> loop.matchCount,
                                                keywords |-> loop.matchedKeywords]
                                          ELSE [text |-> "No keyword matches"],
                              matched |-> matched]

-----------------------------------------------------------------------------
(* evaluateUrlFilter *)

\* domains && domains.length > 0: null is falsy, a number and a boolean have
\* no length, an array and a string have the length of their content, and
\* any other object has the length it carries as a key (a number, or null)
HasLength(v) ==
  CASE IsNull(v) -> FALSE
    [] IsArr(v)  -> Len(v.arr) > 0
    [] IsStr(v)  -> Len(v.str) > 0
    [] DOMAIN v = {"num"}  -> FALSE
    [] DOMAIN v = {"bool"} -> FALSE
    [] OTHER     -> NotNull(v, "length") /\ v.length > 0

\* domains.some(domain => urlDomain.includes(domain))
DomainAllowed(domains, urlDomain) ==
  \E d \in 1..Len(domains) : includes(urlDomain, domains[d])

\* the for...of loop over patterns for one url, from position p on
RECURSIVE PatternLoop(_, _, _, _)
PatternLoop(patterns, url, p, action) ==
  IF p > Len(patterns) THEN [next |-> TRUE]
  ELSE IF ~ RegExpValid(patterns[p]) THEN Throw("SyntaxError")
  ELSE IF RegExpTest(patterns[p], url, FALSE)
       THEN [action  |-> action,
             reason  |-> [text |-> "URL matched pattern", pattern |-> patterns[p]],
             matched |-> TRUE]
  ELSE PatternLoop(patterns, url, p + 1, action)

\* the url loop testing the patterns of a url before its domain
RECURSIVE UrlLoop_PatternsFirst(_, _, _, _)
UrlLoop_PatternsFirst(config, urls, u, action) ==
  IF u > Len(urls)
  THEN [action |-> "allow", reason |-> [text |-> "No URL restrictions matched"],
        matched |-> FALSE]
  ELSE LET url == urls[u]
           checkDomains  == Has(config, "domains") /\ HasLength(config.domains)
           checkPatterns == Has(config, "patterns") /\ Len(config.patterns) > 0
           afterPatterns ==
             IF checkDomains
             THEN IF ~ IsArr(config.domains) THEN Throw("TypeError")
                  ELSE IF DomainAllowed(config.domains.arr, extractDomain(url))
                       THEN [action  |-> "allow",
                             reason  |-> [text |-> "Domain allowed",
                                          domain |-> extractDomain(url)],
                             matched |-> FALSE]
                       ELSE UrlLoop_PatternsFirst(config, urls, u + 1, action)
             ELSE UrlLoop_PatternsFirst(config, urls, u + 1, action)
       IN  IF checkPatterns
           THEN LET r == PatternLoop(config.patterns, url, 1, action)
                IN  IF Has(r, "next") THEN afterPatterns ELSE r
           ELSE afterPatterns

\* the for...of loop over urls, from position u on
RECURSIVE UrlLoop(_, _, _, _)
UrlLoop(config, urls, u, action) ==
  IF u > Len(urls)
  THEN [action |-> "allow", reason |-> [text |-> "No URL restrictions matched"],
        matched |-> FALSE]
  ELSE LET url == urls[u]
           checkDomains  == Has(config, "domains") /\ HasLength(config.domains)
           checkPatterns == Has(config, "patterns") /\ Len(config.patterns) > 0
           afterDomains  ==
             IF checkPatterns
             THEN LET r == PatternLoop(config.patterns, url, 1, action)
                  IN  IF Has(r, "next") THEN UrlLoop(config, urls, u + 1, action) ELSE r
             ELSE UrlLoop(config, urls, u + 1, action)
       IN  IF checkDomains
           THEN IF ~ IsArr(config.domains) THEN Throw("TypeError")
                ELSE IF DomainAllowed(config.domains.arr, extractDomain(url))
                     THEN [action  |-> "allow",
                           reason  |-> [text |-> "Domain allowed", domain |-> extractDomain(url)],
                           matched |-> FALSE]
                     ELSE afterDomains
           ELSE afterDomains

\* evaluateUrlFilter with action = 'allow' as the default
evaluateUrlFilter_DefaultAllow(config, message) ==
  IF IsNull(config) THEN Throw("TypeError")
  ELSE LET action == IF Has(config, "action") THEN config.action ELSE "allow"
           urls   == extractUrls(MessageText(message))
       IN  IF Len(urls) = 0
           THEN [action |-> "allow", reason |-> [text |-> "No URLs found"], matched |-> FALSE]
           ELSE UrlLoop(config, urls, 1, action)

evaluateUrlFilter(config, message) ==
  IF IsNull(config) THEN Throw("TypeError")
  ELSE LET action == IF Has(config, "action") THEN config.action ELSE "block"
           urls   == extractUrls(MessageText(message))
       IN  IF Len(urls) = 0
           THEN [action |-> "allow", reason |-> [text |-> "No URLs found"], matched |-> FALSE]
           ELSE UrlLoop(config, urls, 1, action)

-----------------------------------------------------------------------------
(* evaluateContentFilter *)

\* the filter loop with a length filter that matches from max_length on
RECURSIVE FilterLoop_AtLeast(_, _, _, _)
FilterLoop_AtLeast(filters, text, i, action) ==
  IF i > Len(filters)
  THEN [action |-> "allow", reason |-> [text |-> "No content filters matched"],
        matched |-> FALSE]
  ELSE LET filter == filters[i]
           type    == IF Has(filter, "type") THEN filter.type ELSE "undefined"
           \* text.match(undefined) behaves as the empty expression
           pattern == IF Has(filter, "pattern") THEN filter.pattern ELSE << >>
           name    == IF Has(filter, "name") THEN filter.name ELSE "undefined"
       IN  IF IsNull(filter) THEN Throw("TypeError")
           ELSE IF type = "regex" /\ ~ RegExpValid(pattern)
                THEN Throw("SyntaxError")
           ELSE IF type = "regex" /\ RegExpTest(pattern, text, FALSE)
                THEN [action  |-> action,
                      reason  |-> [text |-> "Content matched filter", name |-> name],
                      matched |-> TRUE]
           ELSE IF type = "length" /\ Has(filter, "max_length")
                   /\ Len(text) >= filter.max_length
                THEN [action  |-> action,
                      reason  |-> [text |-> "Content too long", length |-> Len(text),
                                   max_length |-> filter.max_length],
                      matched |-> TRUE]
           ELSE FilterLoop_AtLeast(filters, text, i + 1, action)

\* the for...of loop over filters, from position i on
RECURSIVE FilterLoop(_, _, _, _)
FilterLoop(filters, text, i, action) ==
  IF i > Len(filters)
  THEN [action |-> "allow", reason |-> [text |-> "No content filters matched"],
        matched |-> FALSE]
  ELSE LET filter == filters[i]
           type    == IF Has(filter, "type") THEN filter.type ELSE "undefined"
           \* text.match(undefined) behaves as the empty expression
           pattern == IF Has(filter, "pattern") THEN filter.pattern ELSE << >>
           name    == IF Has(filter, "name") THEN filter.name ELSE "undefined"
       IN  IF IsNull(filter) THEN Throw("TypeError")
           ELSE IF type = "regex" /\ ~ RegExpValid(pattern)
                THEN Throw("SyntaxError")
           ELSE IF type = "regex" /\ RegExpTest(pattern, text, FALSE)
                THEN [action  |-> action,
                      reason  |-> [text |-> "Content matched filter", name |-> name],
                      matched |-> TRUE]
           ELSE IF type = "length" /\ Has(filter, "max_length")
                   /\ Len(text) > filter.max_length
                THEN [action  |-> action,
                      reason  |-> [text |-> "Content too long", length |-> Len(text),
                                   max_length |-> filter.max_length],
                      matched |-> TRUE]
           ELSE FilterLoop(filters, text, i + 1, action)

evaluateContentFilter(config, message) ==
  IF IsNull(config) THEN Throw("TypeError")
  ELSE LET action == IF Has(config, "action") THEN config.action ELSE "block"
           text   == MessageText(message)
       IN  IF ~ Has(config, "filters") THEN Throw("TypeError")
           ELSE FilterLoop(config.filters, text, 1, action)

-----------------------------------------------------------------------------
(* evaluateRule: dispatch on rule_type inside try / catch *)

\* evaluateRule without its try / catch: a fault propagates to the caller
evaluateRule_NoCatch(rule, message) ==
  LET config == rule.rule_config
      r == CASE rule.rule_type = "keyword_filter" -> evaluateKeywordFilter(config, message)
             [] rule.rule_type = "url_filter"     -> evaluateUrlFilter(config, message)
             [] rule.rule_type = "content_filter" -> evaluateContentFilter(config, message)
             [] OTHER -> [action |-> "allow", reason |-> [text |-> "Unknown rule type"],
                          matched |-> FALSE]
  IN  r

\* evaluateRule whose catch branch reports block
evaluateRule_ErrorBlocks(rule, message) ==
  LET config == rule.rule_config
      r == CASE rule.rule_type = "keyword_filter" -> evaluateKeywordFilter(config, message)
             [] rule.rule_type = "url_filter"     -> evaluateUrlFilter(config, message)
             [] rule.rule_type = "content_filter" -> evaluateContentFilter(config, message)
             [] OTHER -> [action |-> "allow", reason |-> [text |-> "Unknown rule type"],
                          matched |-> FALSE]
  IN  IF Thrown(r)
      THEN [action |-> "block", reason |-> [text |-> "Evaluation error"], matched |-> FALSE]
      ELSE r

evaluateRule(rule, message) ==
  LET config == rule.rule_config
      r == CASE rule.rule_type = "keyword_filter" -> evaluateKeywordFilter(config, message)
             [] rule.rule_type = "url_filter"     -> evaluateUrlFilter(config, message)
             [] rule.rule_type = "content_filter" -> evaluateContentFilter(config, message)
             [] OTHER -> [action |-> "allow", reason |-> [text |-> "Unknown rule type"],
                          matched |-> FALSE]
  IN  IF Thrown(r)
      THEN [action |-> "allow", reason |-> [text |-> "Evaluation error"], matched |-> FALSE]
      ELSE r

-----------------------------------------------------------------------------
(* Inputs: texts, keywords, domains and patterns as character sequences *)

Opt(key, vals) == {<< >>} \cup {[k \in {key} |-> v] : v \in vals}

T_empty == << >>  \* ""
T_spam == <<"s", "p", "a", "m">>  \* "spam"
T_SPAM == <<"S", "P", "A", "M">>  \* "SPAM"
T_is == <<"i", "s">>  \* "is"
T_aa == <<"a", "a">>  \* "aa"
T_aaa == <<"a", "a", "a">>  \* "aaa"
T_s_am == <<"s", ".", "a", "m">>  \* "s.am"
T_paren == <<"(">>  \* "("
T_sNewlineAm == <<"s", "\n", "a", "m">>  \* "s\nam"
T_urlEvilTabBitly == <<"h", "t", "t", "p", ":", "/", "/", "e", "v", "i", "l", ".", "o", "r", "g", "\t", "b", "i", "t", ".", "l", "y">>  \* "http://evil.org\tbit.ly"
T_urlXVtY == <<"h", "t", "t", "p", ":", "/", "/", "x", "", "y">>  \* "http://x" U+000B "y"
T_noUrlVt == <<"h", "t", "t", "p", ":", "/", "/", "", "x">>  \* "http://" U+000B "x"
T_urlXNbspY == <<"h", "t", "t", "p", ":", "/", "/", "x", " ", "y">>  \* "http://x" U+00A0 "y"
T_y == <<"y">>  \* "y"
T_hello == <<"h", "e", "l", "l", "o">>  \* "hello"
T_spamx == <<"s", "p", "a", "m", "x">>  \* "spamx"
T_spam2 == <<"t", "h", "i", "s", " ", "i", "s", " ", "s", "p", "a", "m", " ", "s", "p", "a", "m">>  \* "this is spam spam"
T_SpamMixed == <<"S", "P", "A", "M", " ", "S", "p", "a", "m">>  \* "SPAM Spam"
T_trusted == <<"t", "r", "u", "s", "t", "e", "d", ".", "c", "o", "m">>  \* "trusted.com"
T_safe == <<"s", "a", "f", "e", ".", "o", "r", "g">>  \* "safe.org"
T_bitly == <<"b", "i", "t", "\\", ".", "l", "y">>  \* "bit\.ly"
T_bit_ly == <<"b", "i", "t", ".", "l", "y">>  \* "bit.ly"
T_evil == <<"e", "v", "i", "l">>  \* "evil"
T_noUrl == <<"h", "t", "t", "p", ":", "/", "/", " ", "x">>  \* "http:// x"
T_urlBitly == <<"c", "h", "e", "c", "k", " ", "h", "t", "t", "p", ":", "/", "/", "b", "i", "t", ".", "l", "y", "/", "a", "b", "c">>  \* "check http://bit.ly/abc"
T_urlTrusted == <<"h", "t", "t", "p", "s", ":", "/", "/", "t", "r", "u", "s", "t", "e", "d", ".", "c", "o", "m", "/", "x">>  \* "https://trusted.com/x"
T_urlBitlyThenTrusted == <<"h", "t", "t", "p", ":", "/", "/", "b", "i", "t", ".", "l", "y", "/", "a", " ", "h", "t", "t", "p", "s", ":", "/", "/", "t", "r", "u", "s", "t", "e", "d", ".", "c", "o", "m", "/", "x">>  \* "http://bit.ly/a https://trusted.com/x"
T_urlTrustedThenBitly == <<"h", "t", "t", "p", "s", ":", "/", "/", "t", "r", "u", "s", "t", "e", "d", ".", "c", "o", "m", "/", "x", " ", "h", "t", "t", "p", ":", "/", "/", "b", "i", "t", ".", "l", "y", "/", "a">>  \* "https://trusted.com/x http://bit.ly/a"
T_urlTrustedBitly == <<"h", "t", "t", "p", "s", ":", "/", "/", "t", "r", "u", "s", "t", "e", "d", ".", "c", "o", "m", "/", "b", "i", "t", ".", "l", "y">>  \* "https://trusted.com/bit.ly"
T_urlUpperHost == <<"h", "t", "t", "p", "s", ":", "/", "/", "T", "R", "U", "S", "T", "E", "D", ".", "c", "o", "m", "/", "x">>  \* "https://TRUSTED.com/x"
T_urlTrustedInPath == <<"h", "t", "t", "p", ":", "/", "/", "e", "v", "i", "l", ".", "o", "r", "g", "/", "t", "r", "u", "s", "t", "e", "d", ".", "c", "o", "m">>  \* "http://evil.org/trusted.com"
T_urlBitxly == <<"h", "t", "t", "p", ":", "/", "/", "b", "i", "t", "x", "l", "y", ".", "i", "o", "/", "a">>  \* "http://bitxly.io/a"

Texts == {T_empty, T_spam, T_sNewlineAm, T_urlEvilTabBitly, T_urlXVtY, T_noUrlVt,
          T_urlXNbspY, T_aaa, T_hello, T_spamx, T_spam2, T_SpamMixed, T_noUrl,
          T_urlBitly, T_urlTrusted, T_urlBitlyThenTrusted, T_urlTrustedThenBitly,
          T_urlTrustedBitly, T_urlUpperHost, T_urlTrustedInPath, T_urlBitxly}

\* evaluate request messages: text only, content only, an empty text next to
\* a content, and neither
Messages ==
  {[text |-> s] : s \in Texts}
    \cup {[content |-> T_spam2], [content |-> T_urlBitly]}
    \cup {[text |-> T_empty, content |-> T_spam], [text |-> T_hello, content |-> T_spam]}
    \cup {[sender |-> "bob"]}

Actions == {"block", "allow", "flag"}

MaxOccurrences == 3

KeywordLists ==
  {<< >>, <<Str(T_spam)>>, <<Str(T_SPAM)>>, <<Str(T_spam), Str(T_is)>>, <<Str(T_aa)>>,
   <<Str(T_empty)>>, <<Str(T_s_am)>>, <<Str(T_paren)>>, <<Num(5)>>,
   <<Str(T_spam), Num(5)>>, <<Str(T_hello), Str(T_paren)>>}

KeywordConfigs ==
  {k @@ m @@ a : k \in {[keywords |-> Arr(l)] : l \in KeywordLists},
                 m \in Opt("max_occurrences", (-1)..MaxOccurrences),
                 a \in Opt("action", Actions)}
    \cup {JsNull, [action |-> "block"], [keywords |-> Num(7)], [keywords |-> Str(T_is)]}

DomainLists ==
  {Arr(<< >>), Arr(<<T_trusted>>), Arr(<<T_safe, T_trusted>>), Str(T_trusted),
   JsNull, Num(5), [length |-> 1], [length |-> 0]}

PatternLists ==
  {<< >>, <<T_bitly>>, <<T_evil, T_bit_ly>>, <<T_paren>>, <<T_bitly, T_paren>>, <<T_trusted>>,
   <<T_y>>}

UrlConfigs ==
  {d @@ p @@ a : d \in Opt("domains", DomainLists),
                 p \in Opt("patterns", PatternLists),
                 a \in Opt("action", Actions)}
    \cup {JsNull}

FilterLists ==
  {<< >>,
   <<[type |-> "regex", pattern |-> T_spam, name |-> "f1"]>>,
   <<[type |-> "length", max_length |-> 4, name |-> "f1"]>>,
   <<[type |-> "length", max_length |-> 5, name |-> "f1"],
     [type |-> "regex", pattern |-> T_spam, name |-> "f2"]>>,
   <<[type |-> "regex", pattern |-> T_s_am, name |-> "f1"],
     [type |-> "length", max_length |-> 0, name |-> "f2"]>>,
   <<[type |-> "regex", pattern |-> T_paren, name |-> "f1"]>>,
   <<[type |-> "regex", pattern |-> T_spam, name |-> "f1"], JsNull>>,
   <<JsNull>>,
   <<[type |-> "sentiment", pattern |-> T_spam, max_length |-> 0, name |-> "f1"],
     [type |-> "regex", pattern |-> T_hello, name |-> "f2"]>>,
   <<[type |-> "length", name |-> "f1"]>>,
   <<[type |-> "regex", name |-> "f1"]>>,
   <<[pattern |-> T_spam, max_length |-> 0]>>}

ContentConfigs ==
  {f @@ a : f \in {[filters |-> l] : l \in FilterLists}, a \in Opt("action", Actions)}
    \cup {JsNull, [action |-> "block"]}

\* rules handed to evaluateRule: the three filter types with their
\* configurations, and types the evaluator does not know
EvalRules ==
  {[id |-> "r", rule_name |-> "n", rule_type |-> "keyword_filter", rule_config |-> c] :
      c \in KeywordConfigs}
    \cup {[id |-> "r", rule_name |-> "n", rule_type |-> "url_filter", rule_config |-> c] :
      c \in UrlConfigs}
    \cup {[id |-> "r", rule_name |-> "n", rule_type |-> "content_filter", rule_config |-> c] :
      c \in ContentConfigs}
    \cup {[id |-> "r", rule_name |-> "n", rule_type |-> ty, rule_config |-> c] :
      ty \in {"custom", "sentiment"}, c \in {JsNull, [keywords |-> Arr(<<Str(T_spam)>>)]}}

-----------------------------------------------------------------------------
(* The privacy_rules table and its queries (DatabaseService.query on the   *)
(* statements of RulesService).  A row is a record with the columns of the *)
(* table; SQL NULL is the string NULL in a text column.                    *)

NULL == "NULL"

Users == {"u1", "u2"}

\* a selection by  WHERE id = $1  that leaves out the owner
RowsByIdAndUser_AnyOwner(rules, ruleId, userId) ==
  {r \in rules : r.id = ruleId}

\* the rows of the table selected by  WHERE id = $1 AND user_id = $2
RowsByIdAndUser(rules, ruleId, userId) ==
  {r \in rules : r.id = ruleId /\ r.user_id = userId}

\* an ORDER BY that leaves out the priority
OrderedBefore_ByCreation(a, b) == a.created_at >= b.created_at

\* ORDER BY priority DESC, created_at DESC: a precedes b or ties with it
OrderedBefore(a, b) ==
  \/ a.priority > b.priority
  \/ a.priority = b.priority /\ a.created_at >= b.created_at

\* every ordering of the selected rows that the ORDER BY clause allows (rows
\* equal in both sort keys come in an order the store chooses)
OrderBy(rows) ==
  LET n == Cardinality(rows)
  IN  {s \in [1..n -> rows] :
         /\ \A i, j \in 1..n : i # j => s[i] # s[j]
         /\ \A i, j \in 1..n : i < j => OrderedBefore(s[i], s[j])}

\* getUserRules: the WHERE clause built from the filters
UserRulesWhere(rules, userId, filters) ==
  {r \in rules :
     /\ r.user_id = userId
     /\ (Has(filters, "rule_type") /\ filters.rule_type # "" => r.rule_type = filters.rule_type)
     /\ (Has(filters, "is_active") => r.is_active = filters.is_active)}

\* getUserRules: the possible result row sequences
getUserRules(rules, userId, filters) == OrderBy(UserRulesWhere(rules, userId, filters))

\* createRule: the row the INSERT stores and returns
createRuleRow(ruleId, ruleData, userId, t) ==
  [id               |-> ruleId,
   user_id          |-> userId,
   rule_type        |-> ruleData.rule_type,
   rule_name        |-> ruleData.rule_name,
   rule_description |-> IF NotNull(ruleData, "rule_description")
                        THEN ruleData.rule_description ELSE NULL,
   rule_config      |-> ruleData.rule_config,
   priority         |-> IF NotNull(ruleData, "priority") /\ ruleData.priority # 0
                        THEN ruleData.priority ELSE 1,
   is_active        |-> TRUE,
   created_at       |-> t,
   updated_at       |-> t,
   created_by       |-> userId,
   updated_by       |-> NULL]

\* updateRule: the parameter of a column is not NULL.  rule_name,
\* rule_description, priority and is_active are passed as they are, so NULL
\* when absent or null; the parameter of rule_config is
\* rule_config ? JSON.stringify(rule_config) : null, so NULL also when
\* rule_config is false, 0 or the empty string
Bound(updates, key) ==
  IF key = "rule_config"
  THEN Has(updates, key) /\ JsTruthy(updates[key])
  ELSE NotNull(updates, key)

\* COALESCE($n, column) for a column of the UPDATE
Coalesce(updates, key, old) == IF Bound(updates, key) THEN updates[key] ELSE old

\* an UPDATE that writes NULL for the columns the updates leave out
updateRuleRow_Overwrite(row, updates, userId, t) ==
  [row EXCEPT
     !.rule_name        = IF Bound(updates, "rule_name") THEN updates.rule_name ELSE NULL,
     !.rule_description = IF Bound(updates, "rule_description")
                          THEN updates.rule_description ELSE NULL,
     !.rule_config      = IF Bound(updates, "rule_config") THEN updates.rule_config ELSE JsNull,
     !.priority         = IF Bound(updates, "priority") THEN updates.priority ELSE 1,
     !.is_active        = IF Bound(updates, "is_active") THEN updates.is_active ELSE TRUE,
     !.updated_at       = t,
     !.updated_by       = userId]

\* updateRule: the row after the UPDATE ... SET
updateRuleRow(row, updates, userId, t) ==
  [row EXCEPT
     !.rule_name        = Coalesce(updates, "rule_name", @),
     !.rule_description = Coalesce(updates, "rule_description", @),
     !.rule_config      = Coalesce(updates, "rule_config", @),
     !.priority         = Coalesce(updates, "priority", @),
     !.is_active        = Coalesce(updates, "is_active", @),
     !.updated_at       = t,
     !.updated_by       = userId]

-----------------------------------------------------------------------------
(* logAudit: the INSERT INTO rule_audit_log; a failing insert is caught    *)
(* and leaves the log as it was                                            *)

\* an audit write that keeps only the latest entry
logAudit_KeepsLatest(log, ruleId, action, userId, changes, t, insertOk) ==
  IF insertOk
  THEN <<[rule_id |-> ruleId, action |-> action, user_id |-> userId,
          changes |-> changes, created_at |-> t]>>
  ELSE log

logAudit(log, ruleId, action, userId, changes, t, insertOk) ==
  IF insertOk
  THEN Append(log, [rule_id |-> ruleId, action |-> action, user_id |-> userId,
                    changes |-> changes, created_at |-> t])
  ELSE log

-----------------------------------------------------------------------------
(* evaluateRules *)

\* the entry pushed to results for one rule: the try branch, and the catch
\* branch taken when evaluateRule throws
RuleEvaluation(rule, message) ==
  LET evaluation == evaluateRule(rule, message)
  IN  IF Thrown(evaluation)
      THEN [rule_id |-> rule.id, rule_name |-> rule.rule_name, rule_type |-> rule.rule_type,
            action |-> "allow", reason |-> [text |-> "Rule evaluation failed"],
            matched |-> FALSE, error |-> evaluation.throws]
      ELSE [rule_id |-> rule.id, rule_name |-> rule.rule_name, rule_type |-> rule.rule_type,
            action |-> evaluation.action, reason |-> evaluation.reason,
            matched |-> evaluation.matched]

\* a filter that takes every matched entry as blocking
BlockingRules_AnyMatched(results) ==
  SelectSeq(results, LAMBDA r : r.matched)

\* results.filter(r => r.action === 'block' && r.matched)
BlockingRules(results) ==
  SelectSeq(results, LAMBDA r : r.action = "block" /\ r.matched)

\* a scan that stops at the first blocking rule
evaluateRules_StopAtBlock(rules, message) ==
  LET all  == [i \in 1..Len(rules) |-> RuleEvaluation(rules[i], message)]
      stop == {i \in 1..Len(all) : all[i].action = "block" /\ all[i].matched}
      results == IF stop = {} THEN all
                 ELSE SubSeq(all, 1, CHOOSE i \in stop : \A j \in stop : i <= j)
      blockingRules == BlockingRules(results)
  IN  [final_action     |-> IF Len(blockingRules) > 0 THEN "block" ELSE "allow",
       rule_evaluations |-> results,
       blocking_rules   |-> blockingRules]

\* the value evaluateRules returns for the rows its query returned
evaluateRules(rules, message) ==
  LET results == [i \in 1..Len(rules) |-> RuleEvaluation(rules[i], message)]
      blockingRules == BlockingRules(results)
  IN  [final_action     |-> IF Len(blockingRules) > 0 THEN "block" ELSE "allow",
       rule_evaluations |-> results,
       blocking_rules   |-> blockingRules]

-----------------------------------------------------------------------------
(* validateRule.  A candidate is the request body: rule_type and rule_name *)
(* are strings when present, rule_config is an object or null when present *)

\* !candidate.rule_type, !candidate.rule_name: absent or the empty string
Blank(candidate, key) == ~ Has(candidate, key) \/ candidate[key] = ""

\* !candidate.rule_config: absent or null
NoConfig(candidate) == ~ Has(candidate, "rule_config") \/ IsNull(candidate.rule_config)

\* the error the switch pushes for the candidate's type, if any
TypeErrors(rule_type, config) ==
  CASE rule_type = "keyword_filter" ->
         IF ~ Has(config, "keywords") \/ ~ JsTruthy(config.keywords)
              \/ ~ IsArr(config.keywords)
         THEN <<"Keywords array is required for keyword_filter rule type">>
         ELSE << >>
    [] rule_type = "url_filter" ->
         \* a patterns value is an array here, and arrays are truthy
         IF (~ Has(config, "domains") \/ ~ JsTruthy(config.domains))
              /\ ~ Has(config, "patterns")
         THEN <<"Domains or patterns are required for url_filter rule type">>
         ELSE << >>
    [] rule_type = "content_filter" ->
         \* a filters value is an array here
         IF ~ Has(config, "filters")
         THEN <<"Filters array is required for content_filter rule type">>
         ELSE << >>
    [] OTHER -> << >>

TypedRule(rule_type) == rule_type \in {"keyword_filter", "url_filter", "content_filter"}

\* validateRule: the three presence checks, then the switch; reading a
\* property of a missing rule_config inside the switch raises a TypeError,
\* which the catch turns into the generic result
validateRule(candidate) ==
  LET basic == (IF Blank(candidate, "rule_type")
                THEN <<"Rule type is required">> ELSE << >>)
               \o (IF Blank(candidate, "rule_name")
                   THEN <<"Rule name is required">> ELSE << >>)
               \o (IF NoConfig(candidate)
                   THEN <<"Rule configuration is required">> ELSE << >>)
  IN  IF Has(candidate, "rule_type") /\ TypedRule(candidate.rule_type) /\ NoConfig(candidate)
      THEN [isValid |-> FALSE, errors |-> <<"Validation error occurred">>]
      ELSE LET errors == basic \o (IF Has(candidate, "rule_type") /\ ~ NoConfig(candidate)
                                   THEN TypeErrors(candidate.rule_type, candidate.rule_config)
                                   ELSE << >>)
           IN  [isValid |-> Len(errors) = 0, errors |-> errors]

-----------------------------------------------------------------------------
(* Initial states *)

NoOp == [op |-> "none"]

\* the service starts on empty tables
Init ==
  /\ privacy_rules = {}
  /\ rule_audit_log = << >>
  /\ now = 1
  /\ nextId = 1
  /\ threat_patterns = {}
  /\ pending = << >>
  /\ audit_errors = 0
  /\ seed_pc = 0
  /\ rule_templates = {}
  /\ selected = << >>
  /\ last = NoOp

-----------------------------------------------------------------------------
(* Requests served by the service.  A read is one statement and one        *)
(* action.  createRule, updateRule and deleteRule await their statement on *)
(* privacy_rules and then await logAudit; between the two the statements   *)
(* of other requests are served, so each is two actions: the action of the *)
(* method's name, up to the rule statement, and LogAudit, the audit insert *)
(* and the return.  pending holds the requests between the two in the      *)
(* order of their rule statements, each with the row it is going to        *)
(* return.                                                                 *)
(* last records the latest statement outcome: the call, and the row it    *)
(* selected or the error it threw; after LogAudit, the request that        *)
(* returned.  auditOk tells whether the INSERT of logAudit succeeds;       *)
(* audit_errors counts the 'Failed to log audit:' lines of its catch.      *)

MaxRules == 2

MaxClock == 2

MaxAudit == 2

RuleIds == 1..MaxRules

\* the NOT NULL columns of privacy_rules that createRule fills from ruleData:
\* the parameter of rule_type and of rule_name is NULL when the key is absent
\* and when its value is null; JSON.stringify(rule_config) is NULL when the
\* key is absent, and the JSON text null, which the column takes, when its
\* value is null
InsertAccepted(ruleData) ==
  /\ NotNull(ruleData, "rule_type")
  /\ NotNull(ruleData, "rule_name")
  /\ Has(ruleData, "rule_config")

\* a request whose rule statement is done and whose logAudit is to come
InFlight(op, ruleId, action, userId, changes, result) ==
  [op |-> op, ruleId |-> ruleId, action |-> action,
   userId |-> userId, changes |-> changes, result |-> result]

\* the requests in flight but the i-th
Others(i) == SubSeq(pending, 1, i - 1) \o SubSeq(pending, i + 1, Len(pending))

\* MaxAudit bounds the audit inserts made and still to be made
MayWrite == Len(rule_audit_log) + audit_errors + Len(pending) + Len(selected) < MaxAudit

\* MaxRules bounds the rule ids given out and still to be given out
MayCreate == nextId + Len(selected) <= MaxRules

\* createRule up to the INSERT INTO privacy_rules
CreateRule(ruleData, userId) ==
  /\ MayCreate
  /\ MayWrite
  /\ IF InsertAccepted(ruleData)
     THEN LET row == createRuleRow(nextId, ruleData, userId, now)
          IN  /\ privacy_rules' = privacy_rules \cup {row}
              /\ nextId' = nextId + 1
              /\ pending' = Append(pending,
                    InFlight("createRule", nextId, "CREATE", userId,
                             [rule_data |-> ruleData], row))
              /\ last' = [op |-> "createRule", ruleData |-> ruleData, userId |-> userId,
                          result |-> row]
     ELSE /\ last' = [op |-> "createRule", ruleData |-> ruleData, userId |-> userId,
                      error |-> "not-null constraint"]
          /\ UNCHANGED <<privacy_rules, nextId, pending>>
  /\ UNCHANGED <<rule_audit_log, now, threat_patterns, audit_errors, seed_pc,
                 rule_templates, selected>>

\* a getRule that tells a caller when the id exists under another owner
GetRule_TellsForbidden(ruleId, userId) ==
  /\ LET rows == RowsByIdAndUser(privacy_rules, ruleId, userId)
     IN  last' = IF rows = {}
                 THEN [op |-> "getRule", ruleId |-> ruleId, userId |-> userId,
                       error |-> IF \E r \in privacy_rules : r.id = ruleId
                                 THEN "Access denied" ELSE "Rule not found"]
                 ELSE [op |-> "getRule", ruleId |-> ruleId, userId |-> userId,
                       result |-> CHOOSE r \in rows : TRUE]
  /\ UNCHANGED <<privacy_rules, rule_audit_log, now, nextId, threat_patterns,
                 pending, audit_errors, seed_pc,
                 rule_templates, selected>>

GetRule(ruleId, userId) ==
  /\ LET rows == RowsByIdAndUser(privacy_rules, ruleId, userId)
     IN  last' = IF rows = {}
                 THEN [op |-> "getRule", ruleId |-> ruleId, userId |-> userId,
                       error |-> "Rule not found"]
                 ELSE [op |-> "getRule", ruleId |-> ruleId, userId |-> userId,
                       result |-> CHOOSE r \in rows : TRUE]
  /\ UNCHANGED <<privacy_rules, rule_audit_log, now, nextId, threat_patterns,
                 pending, audit_errors, seed_pc,
                 rule_templates, selected>>

GetUserRules(userId, filters) ==
  \E rows \in getUserRules(privacy_rules, userId, filters) :
    /\ last' = [op |-> "getUserRules", userId |-> userId, filters |-> filters,
                result |-> rows]
    /\ UNCHANGED <<privacy_rules, rule_audit_log, now, nextId, threat_patterns,
                   pending, audit_errors, seed_pc,
                 rule_templates, selected>>

\* an updateRule that writes its audit entry together with the row
UpdateRule_AuditWithRow(ruleId, updates, userId) ==
  /\ MayWrite
  /\ LET rows == RowsByIdAndUser(privacy_rules, ruleId, userId)
     IN  IF rows = {}
         THEN /\ last' = [op |-> "updateRule", ruleId |-> ruleId, updates |-> updates,
                          userId |-> userId, error |-> "Rule not found or access denied"]
              /\ UNCHANGED <<privacy_rules, rule_audit_log, pending>>
         ELSE LET old == CHOOSE r \in rows : TRUE
                  row == updateRuleRow(old, updates, userId, now)
              IN  /\ privacy_rules' = (privacy_rules \ {old}) \cup {row}
                  /\ rule_audit_log' = logAudit(rule_audit_log, ruleId, "UPDATE", userId,
                                                [updates |-> updates], now, TRUE)
                  /\ pending' = pending
                  /\ last' = [op |-> "updateRule", ruleId |-> ruleId, updates |-> updates,
                              userId |-> userId, result |-> row]
  /\ UNCHANGED <<now, nextId, threat_patterns, audit_errors, seed_pc,
                 rule_templates, selected>>

\* updateRule up to the UPDATE privacy_rules
UpdateRule(ruleId, updates, userId) ==
  /\ MayWrite
  /\ LET rows == RowsByIdAndUser(privacy_rules, ruleId, userId)
     IN  IF rows = {}
         THEN /\ last' = [op |-> "updateRule", ruleId |-> ruleId, updates |-> updates,
                          userId |-> userId, error |-> "Rule not found or access denied"]
              /\ UNCHANGED <<privacy_rules, pending>>
         ELSE LET old == CHOOSE r \in rows : TRUE
                  row == updateRuleRow(old, updates, userId, now)
              IN  /\ privacy_rules' = (privacy_rules \ {old}) \cup {row}
                  /\ pending' = Append(pending,
                        InFlight("updateRule", ruleId, "UPDATE", userId,
                                 [updates |-> updates], row))
                  /\ last' = [op |-> "updateRule", ruleId |-> ruleId, updates |-> updates,
                              userId |-> userId, result |-> row]
  /\ UNCHANGED <<rule_audit_log, now, nextId, threat_patterns, audit_errors,
                 seed_pc,
                 rule_templates, selected>>

\* a deleteRule that keeps the row as an inactive tombstone
DeleteRule_Tombstone(ruleId, userId) ==
  /\ MayWrite
  /\ LET rows == RowsByIdAndUser(privacy_rules, ruleId, userId)
     IN  IF rows = {}
         THEN /\ last' = [op |-> "deleteRule", ruleId |-> ruleId, userId |-> userId,
                          error |-> "Rule not found or access denied"]
              /\ UNCHANGED <<privacy_rules, pending>>
         ELSE LET old == CHOOSE r \in rows : TRUE
              IN  /\ privacy_rules' = (privacy_rules \ {old})
                                         \cup {[old EXCEPT !.is_active = FALSE]}
                  /\ pending' = Append(pending,
                        InFlight("deleteRule", ruleId, "DELETE", userId,
                                 [deleted_rule |-> old], old))
                  /\ last' = [op |-> "deleteRule", ruleId |-> ruleId, userId |-> userId,
                              result |-> old]
  /\ UNCHANGED <<rule_audit_log, now, nextId, threat_patterns, audit_errors,
                 seed_pc,
                 rule_templates, selected>>

\* deleteRule up to the DELETE FROM privacy_rules
DeleteRule(ruleId, userId) ==
  /\ MayWrite
  /\ LET rows == RowsByIdAndUser(privacy_rules, ruleId, userId)
     IN  IF rows = {}
         THEN /\ last' = [op |-> "deleteRule", ruleId |-> ruleId, userId |-> userId,
                          error |-> "Rule not found or access denied"]
              /\ UNCHANGED <<privacy_rules, pending>>
         ELSE LET old == CHOOSE r \in rows : TRUE
              IN  /\ privacy_rules' = privacy_rules \ {old}
                  /\ pending' = Append(pending,
                        InFlight("deleteRule", ruleId, "DELETE", userId,
                                 [deleted_rule |-> old], old))
                  /\ last' = [op |-> "deleteRule", ruleId |-> ruleId, userId |-> userId,
                              result |-> old]
  /\ UNCHANGED <<rule_audit_log, now, nextId, threat_patterns, audit_errors,
                 seed_pc,
                 rule_templates, selected>>

\* a logAudit whose failure reaches the caller
LogAudit_Throws(auditOk) ==
  \E i \in 1..Len(pending) :
   LET p == pending[i] IN
    /\ rule_audit_log' = logAudit(rule_audit_log, p.ruleId, p.action, p.userId,
                                  p.changes, now, auditOk)
    /\ pending' = Others(i)
    /\ last' = IF auditOk
               THEN [op |-> "logAudit", call |-> p.op, ruleId |-> p.ruleId,
                     userId |-> p.userId, auditOk |-> auditOk, result |-> p.result]
               ELSE [op |-> "logAudit", call |-> p.op, ruleId |-> p.ruleId,
                     userId |-> p.userId, auditOk |-> auditOk, error |-> "audit"]
    /\ audit_errors' = IF auditOk THEN audit_errors ELSE audit_errors + 1
    /\ UNCHANGED <<privacy_rules, now, nextId, threat_patterns, seed_pc,
                 rule_templates, selected>>

\* the rest of createRule, updateRule and deleteRule: logAudit, whose INSERT
\* may fail and is then only logged, and the return of the row; the requests
\* in flight come to their audit insert in any order
LogAudit(auditOk) ==
  \E i \in 1..Len(pending) :
   LET p == pending[i] IN
    /\ rule_audit_log' = logAudit(rule_audit_log, p.ruleId, p.action, p.userId,
                                  p.changes, now, auditOk)
    /\ pending' = Others(i)
    /\ last' = [op |-> "logAudit", call |-> p.op, ruleId |-> p.ruleId,
                userId |-> p.userId, auditOk |-> auditOk, result |-> p.result]
    /\ audit_errors' = IF auditOk THEN audit_errors ELSE audit_errors + 1
    /\ UNCHANGED <<privacy_rules, now, nextId, threat_patterns, seed_pc,
                 rule_templates, selected>>

\* evaluateRules: one getUserRules query for the active rules, then the scan
EvaluateRules(message, userId) ==
  \E rules \in getUserRules(privacy_rules, userId, [is_active |-> TRUE]) :
    /\ last' = [op |-> "evaluateRules", userId |-> userId, message |-> message,
                rules |-> rules, result |-> evaluateRules(rules, message)]
    /\ UNCHANGED <<privacy_rules, rule_audit_log, now, nextId, threat_patterns,
                   pending, audit_errors, seed_pc,
                 rule_templates, selected>>

\* the clock reading is held by some row or audit entry
Stamped(t) ==
  \/ \E r \in privacy_rules : r.created_at = t \/ r.updated_at = t
  \/ \E p \in threat_patterns : p.created_at = t
  \/ \E i \in 1..Len(rule_audit_log) : rule_audit_log[i].created_at = t

\* time passes between requests; requests served within one clock reading
\* get the same NOW().  Only the order of the stored readings is observable,
\* so the clock moves on only from a reading that has been stored
Tick ==
  /\ now < MaxClock
  /\ Stamped(now)
  /\ now' = now + 1
  /\ UNCHANGED <<privacy_rules, rule_audit_log, nextId, last, threat_patterns,
                 pending, audit_errors, seed_pc,
                 rule_templates, selected>>

-----------------------------------------------------------------------------
(* Spec: rules are created, updated, deleted, listed and evaluated by      *)
(* concurrent requests; every audit insert succeeds, so MaxAudit bounds    *)
(* the number of mutations of a behaviour                                  *)

\* request bodies of rule creation
RuleDataInputs ==
  {[rule_type |-> "keyword_filter", rule_name |-> "kw block",
    rule_config |-> [keywords |-> Arr(<<Str(T_spam)>>), max_occurrences |-> 1,
                     action |-> "block"], priority |-> 5],
   [rule_type |-> "keyword_filter", rule_name |-> "kw flag", rule_description |-> "d",
    rule_config |-> [keywords |-> Arr(<<Str(T_spam)>>), action |-> "flag"], priority |-> 5],
   [rule_type |-> "url_filter", rule_name |-> "url bad",
    rule_config |-> [patterns |-> <<T_paren>>], priority |-> 0],
   [rule_type |-> "keyword_filter", rule_config |-> [keywords |-> Arr(<< >>)]],
   [rule_type |-> "keyword_filter", rule_name |-> JsNull,
    rule_config |-> [keywords |-> Arr(<<Str(T_spam)>>)]],
   [rule_type |-> JsNull, rule_name |-> "no type", rule_description |-> "d",
    rule_config |-> JsNull]}

\* request bodies of rule update
UpdatesInputs ==
  {[priority |-> 11], [is_active |-> FALSE, rule_name |-> JsNull],
   [rule_name |-> "renamed", rule_description |-> "new text",
    rule_config |-> [keywords |-> Arr(<<Str(T_is)>>)]],
   [rule_name |-> "", rule_description |-> "", priority |-> 0, is_active |-> TRUE],
   [rule_config |-> Num(0)], [rule_config |-> Bool(FALSE)], [rule_config |-> Str(T_empty)]}

FiltersInputs ==
  {t @@ a : t \in Opt("rule_type", {"keyword_filter"}), a \in Opt("is_active", {TRUE})}

MessageInputs ==
  {[text |-> T_spam2], [text |-> T_urlBitlyThenTrusted]}

Next ==
  \/ \E ruleData \in RuleDataInputs, userId \in Users : CreateRule(ruleData, userId)
  \/ \E ruleId \in RuleIds, userId \in Users : GetRule(ruleId, userId)
  \/ \E userId \in Users, filters \in FiltersInputs : GetUserRules(userId, filters)
  \/ \E ruleId \in RuleIds, updates \in UpdatesInputs, userId \in Users :
       UpdateRule(ruleId, updates, userId)
  \/ \E ruleId \in RuleIds, userId \in Users : DeleteRule(ruleId, userId)
  \/ LogAudit(TRUE)
  \/ \E message \in MessageInputs, userId \in Users : EvaluateRules(message, userId)
  \/ Tick

Spec == Init /\ [][Next]_vars

-----------------------------------------------------------------------------
(* Parts of Spec.  A read changes no table, so the tables a behaviour of   *)
(* Spec reaches are those its writes reach, and what one kind of read      *)
(* returns does not depend on the other kinds.  Each part has the writes   *)
(* and one kind of read.                                                   *)

\* createRule calls that store a rule
StoredRuleCalls ==
  {[ruleData |-> d, userId |-> "u1"] : d \in {x \in RuleDataInputs : InsertAccepted(x)}}
    \cup {[ruleData |-> d, userId |-> "u2"] :
            d \in {x \in RuleDataInputs : InsertAccepted(x) /\ x.rule_name = "kw block"}}

DeactivateInputs == {[is_active |-> FALSE, rule_name |-> JsNull]}

ScanMessages == {[text |-> T_spam]}

\* SpecScan: rules are written and evaluated
NextScan ==
  \/ \E c \in StoredRuleCalls : CreateRule(c.ruleData, c.userId)
  \/ \E ruleId \in RuleIds, updates \in DeactivateInputs, userId \in Users :
       UpdateRule(ruleId, updates, userId)
  \/ \E ruleId \in RuleIds, userId \in Users : DeleteRule(ruleId, userId)
  \/ LogAudit(TRUE)
  \/ \E message \in ScanMessages, userId \in Users : EvaluateRules(message, userId)
  \/ Tick

SpecScan == Init /\ [][NextScan]_vars

\* SpecList: rules are written and listed
NextList ==
  \/ \E c \in StoredRuleCalls : CreateRule(c.ruleData, c.userId)
  \/ \E ruleId \in RuleIds, updates \in DeactivateInputs, userId \in Users :
       UpdateRule(ruleId, updates, userId)
  \/ \E ruleId \in RuleIds, userId \in Users : DeleteRule(ruleId, userId)
  \/ LogAudit(TRUE)
  \/ \E userId \in Users, filters \in FiltersInputs : GetUserRules(userId, filters)
  \/ Tick

SpecList == Init /\ [][NextList]_vars

-----------------------------------------------------------------------------
(* Rule evaluation as a pure function: an input pair is drawn, then        *)
(* evaluateRule is applied to it                                           *)

InitEval ==
  /\ privacy_rules = {}
  /\ rule_audit_log = << >>
  /\ now = 1
  /\ nextId = 1
  /\ threat_patterns = {}
  /\ pending = << >>
  /\ audit_errors = 0
  /\ seed_pc = 0
  /\ rule_templates = {}
  /\ selected = << >>
  /\ last \in {[op |-> "input", rule |-> r, message |-> m] :
                 r \in EvalRules, m \in Messages}

EvaluateRuleStep ==
  /\ last.op = "input"
  /\ last' = [op |-> "evaluateRule", rule |-> last.rule, message |-> last.message,
              result |-> evaluateRule(last.rule, last.message)]
  /\ UNCHANGED <<privacy_rules, rule_audit_log, now, nextId, threat_patterns,
                 pending, audit_errors, seed_pc,
                 rule_templates, selected>>

NextEval == EvaluateRuleStep

SpecEval == InitEval /\ [][NextEval]_vars

-----------------------------------------------------------------------------
(* The rule_templates table (DatabaseService.initializeTables) starts      *)
(* empty.  No statement of the service writes it, and the INSERTs of the   *)
(* seed and migration scripts into it are never reached, so a row is there *)
(* only when an administrator of the deployment has inserted it with a     *)
(* statement of their own, and is gone when they have deleted it.          *)
(* TemplateRows are the rows they write here: a public template with an    *)
(* embedded rule_type, a template that is not public, a public template   *)
(* without an embedded rule_type, one whose embedded rule_type is null,    *)
(* and one whose template_config is the JSON null (which the NOT NULL      *)
(* JSONB column takes).                                                    *)
(* createRuleFromTemplate awaits the template SELECT and then calls        *)
(* createRule, which awaits its INSERT; the statements of other requests   *)
(* and of the administrators are served between the two.  selected holds   *)
(* the requests between the two, each with the copy of the template row it *)
(* has read and the ruleData it has built from it.                         *)

TemplateRows ==
  {[id |-> "t1", template_name |-> "Keyword Block",
    template_description |-> "Blocks a keyword",
    template_category |-> "keywords",
    template_config |-> [rule_type |-> "keyword_filter", keywords |-> Arr(<<Str(T_spam)>>),
                         max_occurrences |-> 1, action |-> "block"],
    is_public |-> TRUE],
   [id |-> "t2", template_name |-> "Private", template_description |-> NULL,
    template_category |-> "workplace",
    template_config |-> [rule_type |-> "keyword_filter", keywords |-> Arr(<<Str(T_is)>>)],
    is_public |-> FALSE],
   [id |-> "t3", template_name |-> "Untyped", template_description |-> "no embedded type",
    template_category |-> "workplace",
    template_config |-> [action |-> "allow"],
    is_public |-> TRUE],
   [id |-> "t4", template_name |-> "Null type", template_description |-> "null embedded type",
    template_category |-> "workplace",
    template_config |-> [rule_type |-> JsNull],
    is_public |-> TRUE],
   [id |-> "t5", template_name |-> "Null config", template_description |-> "no config",
    template_category |-> "workplace",
    template_config |-> JsNull,
    is_public |-> TRUE]}

\* an administrator inserts a template; id is the primary key of the table
ProvisionTemplate(row) ==
  /\ \A t \in rule_templates : t.id # row.id
  /\ rule_templates' = rule_templates \cup {row}
  /\ UNCHANGED <<privacy_rules, rule_audit_log, now, nextId, last, threat_patterns,
                 pending, audit_errors, seed_pc, selected>>

\* an administrator deletes a template
WithdrawTemplate(templateId) ==
  /\ \E t \in rule_templates : t.id = templateId
  /\ rule_templates' = {t \in rule_templates : t.id # templateId}
  /\ UNCHANGED <<privacy_rules, rule_audit_log, now, nextId, last, threat_patterns,
                 pending, audit_errors, seed_pc, selected>>

\* a template lookup that leaves out  AND is_public = true
PublicTemplatesById_AnyVisibility(templateId) ==
  {t \in rule_templates : t.id = templateId}

\* createRuleFromTemplate: the rows of  WHERE id = $1 AND is_public = true
PublicTemplatesById(templateId) ==
  {t \in rule_templates : t.id = templateId /\ t.is_public}

\* { ...template_config }: the keys of an object, the indices of an array
\* or of a string, and nothing of a number or a boolean
Spread(v) ==
  CASE IsArr(v) -> [k \in {ToString(i - 1) : i \in 1..Len(v.arr)} |->
                      v.arr[CHOOSE i \in 1..Len(v.arr) : ToString(i - 1) = k]]
    [] IsStr(v) -> [k \in {ToString(i - 1) : i \in 1..Len(v.str)} |->
                      Str(<<v.str[CHOOSE i \in 1..Len(v.str) : ToString(i - 1) = k]>>)]
    [] DOMAIN v = {"num"}  -> << >>
    [] DOMAIN v = {"bool"} -> << >>
    [] OTHER -> v

\* a merge in which the template's keys win over the customizations
templateRuleData_TemplateWins(template, customizations) ==
  IF IsNull(template.template_config) THEN Throw("TypeError")
  ELSE
  [rule_type        |-> OrElse(template.template_config, "rule_type", "custom"),
   rule_name        |-> OrElse(customizations, "rule_name", template.template_name),
   rule_description |-> OrElse(customizations, "rule_description",
                               template.template_description),
   rule_config      |-> Spread(template.template_config) @@ customizations,
   priority         |-> OrElse(customizations, "priority", 1)]

\* a ruleData that always takes the template's name
templateRuleData_TemplateName(template, customizations) ==
  IF IsNull(template.template_config) THEN Throw("TypeError")
  ELSE
  [rule_type        |-> OrElse(template.template_config, "rule_type", "custom"),
   rule_name        |-> template.template_name,
   rule_description |-> OrElse(customizations, "rule_description",
                               template.template_description),
   rule_config      |-> customizations @@ Spread(template.template_config),
   priority         |-> OrElse(customizations, "priority", 1)]

\* createRuleFromTemplate: the ruleData built from the template and the
\* customizations; { ...template_config, ...customizations } takes every key
\* of the customizations over the template's, and  a || b  takes b when a is
\* absent, null, the empty string, 0 or false; reading rule_type of a
\* template_config that is null is a TypeError
templateRuleData(template, customizations) ==
  IF IsNull(template.template_config) THEN Throw("TypeError")
  ELSE
  [rule_type        |-> OrElse(template.template_config, "rule_type", "custom"),
   rule_name        |-> OrElse(customizations, "rule_name", template.template_name),
   rule_description |-> OrElse(customizations, "rule_description",
                               template.template_description),
   rule_config      |-> customizations @@ Spread(template.template_config),
   priority         |-> OrElse(customizations, "priority", 1)]

\* a createRuleFromTemplate whose template SELECT is done and whose
\* createRule is to come
Selected(templateId, userId, customizations, template, ruleData) ==
  [templateId |-> templateId, userId |-> userId, customizations |-> customizations,
   template |-> template, ruleData |-> ruleData]

\* the requests between their SELECT and their createRule but the i-th
OthersSelected(i) == SubSeq(selected, 1, i - 1) \o SubSeq(selected, i + 1, Len(selected))

\* createRuleFromTemplate up to the template SELECT: 'Template not found'
\* without a row, the TypeError of a row whose template_config is null, and
\* otherwise the ruleData built from the row read
CreateRuleFromTemplate(templateId, userId, customizations) ==
  /\ MayCreate
  /\ MayWrite
  /\ LET templates == PublicTemplatesById(templateId)
     IN  IF templates = {}
         THEN /\ last' = [op |-> "createRuleFromTemplate", templateId |-> templateId,
                          customizations |-> customizations, userId |-> userId,
                          error |-> "Template not found"]
              /\ UNCHANGED selected
         ELSE LET template == CHOOSE t \in templates : TRUE
                  ruleData == templateRuleData(template, customizations)
              IN  IF Thrown(ruleData)
                  THEN /\ last' = [op |-> "createRuleFromTemplate",
                                   templateId |-> templateId,
                                   customizations |-> customizations, userId |-> userId,
                                   template |-> template, error |-> ruleData.throws]
                       /\ UNCHANGED selected
                  ELSE /\ selected' = Append(selected,
                             Selected(templateId, userId, customizations, template,
                                      ruleData))
                       /\ last' = [op |-> "createRuleFromTemplate",
                                   templateId |-> templateId,
                                   customizations |-> customizations, userId |-> userId,
                                   template |-> template]
  /\ UNCHANGED <<privacy_rules, rule_audit_log, now, nextId, threat_patterns, pending,
                 audit_errors, seed_pc, rule_templates>>

\* the rest of createRuleFromTemplate: createRule(ruleData, userId) up to its
\* INSERT INTO privacy_rules, on the ruleData built from the row read, whatever
\* has become of the row since; the requests in flight come to it in any order
TemplateCreateRule ==
  \E i \in 1..Len(selected) :
   LET s == selected[i] IN
    /\ IF InsertAccepted(s.ruleData)
       THEN LET row == createRuleRow(nextId, s.ruleData, s.userId, now)
            IN  /\ privacy_rules' = privacy_rules \cup {row}
                /\ nextId' = nextId + 1
                /\ pending' = Append(pending,
                      InFlight("createRule", nextId, "CREATE", s.userId,
                               [rule_data |-> s.ruleData], row))
                /\ last' = [op |-> "createRuleFromTemplate", templateId |-> s.templateId,
                            customizations |-> s.customizations, userId |-> s.userId,
                            template |-> s.template, result |-> row]
       ELSE /\ last' = [op |-> "createRuleFromTemplate", templateId |-> s.templateId,
                        customizations |-> s.customizations, userId |-> s.userId,
                        template |-> s.template, error |-> "not-null constraint"]
            /\ UNCHANGED <<privacy_rules, nextId, pending>>
    /\ selected' = OthersSelected(i)
    /\ UNCHANGED <<rule_audit_log, now, threat_patterns, audit_errors, seed_pc,
                   rule_templates>>

\* POST /rules: validateRule, and createRule when the body is valid
PostRule(ruleData, userId) ==
  LET validation == validateRule(ruleData)
  IN  IF validation.isValid
      THEN CreateRule(ruleData, userId)
      ELSE /\ MayCreate
           /\ last' = [op |-> "POST /rules", ruleData |-> ruleData, userId |-> userId,
                       status |-> 400, details |-> validation.errors]
           /\ UNCHANGED <<privacy_rules, rule_audit_log, now, nextId, threat_patterns,
                          pending, audit_errors, seed_pc,
                 rule_templates, selected>>

-----------------------------------------------------------------------------
(* SpecRoutes: rules come into the table through the routes that write     *)
(* them: POST /rules, PUT /rules/:ruleId and the creation from a template  *)

PostBodies ==
  {[rule_type |-> "keyword_filter", rule_name |-> "kw block",
    rule_config |-> [keywords |-> Arr(<<Str(T_spam)>>), action |-> "block"], priority |-> 5],
   [rule_type |-> "keyword_filter", rule_name |-> "kw none",
    rule_config |-> [keywords |-> Arr(<< >>)]],
   [rule_type |-> "keyword_filter", rule_name |-> "kw no list",
    rule_config |-> [action |-> "block"]],
   [rule_type |-> "url_filter", rule_name |-> "no config"]}

PutBodies ==
  {[rule_config |-> [action |-> "flag"]],
   [rule_config |-> [keywords |-> Arr(<<Str(T_is)>>)], rule_name |-> "renamed"],
   [priority |-> 3]}

CustomizationInputs ==
  {<< >>, [keywords |-> JsNull], [rule_name |-> JsNull, priority |-> JsNull, action |-> "flag"],
   [rule_name |-> "mine", priority |-> 50, rule_description |-> "my rule"],
   [action |-> "block", rule_type |-> "url_filter"],
   [rule_name |-> "", priority |-> 0]}

\* the templates the requests of SpecRoutes ask for, and their rows
RouteTemplateIds == {"t1", "t2", "t3", "t9"}

RouteTemplateRows == {row \in TemplateRows : row.id \in RouteTemplateIds}

NextRoutes ==
  \/ \E ruleData \in PostBodies, userId \in Users : PostRule(ruleData, userId)
  \* PUT /rules/:ruleId hands the request body to updateRule as it is
  \/ \E ruleId \in RuleIds, updates \in PutBodies, userId \in Users :
       UpdateRule(ruleId, updates, userId)
  \/ \E row \in RouteTemplateRows : ProvisionTemplate(row)
  \/ \E templateId \in RouteTemplateIds : WithdrawTemplate(templateId)
  \/ \E templateId \in RouteTemplateIds, userId \in Users,
        customizations \in CustomizationInputs :
       CreateRuleFromTemplate(templateId, userId, customizations)
  \/ TemplateCreateRule
  \/ LogAudit(TRUE)
  \/ Tick

SpecRoutes == Init /\ [][NextRoutes]_vars

\* SpecTemplates: the part of SpecRoutes in which one user creates rules
\* from templates, within one clock reading
TemplateCallers == {"u1"}

TemplateCustomizations ==
  {c \in CustomizationInputs : Has(c, "rule_name") \/ Has(c, "action")}

NextTemplates ==
  \/ \E row \in RouteTemplateRows : ProvisionTemplate(row)
  \/ \E templateId \in RouteTemplateIds : WithdrawTemplate(templateId)
  \/ \E templateId \in RouteTemplateIds, userId \in TemplateCallers,
        customizations \in TemplateCustomizations :
       CreateRuleFromTemplate(templateId, userId, customizations)
  \/ TemplateCreateRule
  \/ LogAudit(TRUE)

SpecTemplates == Init /\ [][NextTemplates]_vars

\* SpecTemplateTypes: as SpecTemplates, on the public templates: with an
\* embedded rule_type, without one, with a null one and with a null config
TypedTemplateIds == {"t1", "t3", "t4", "t5"}

TypedTemplateRows == {row \in TemplateRows : row.id \in TypedTemplateIds}

NamingCustomizations == {c \in CustomizationInputs : Has(c, "rule_name")}

NextTemplateTypes ==
  \/ \E row \in TypedTemplateRows : ProvisionTemplate(row)
  \/ \E templateId \in TypedTemplateIds : WithdrawTemplate(templateId)
  \/ \E templateId \in TypedTemplateIds, userId \in TemplateCallers,
        customizations \in NamingCustomizations :
       CreateRuleFromTemplate(templateId, userId, customizations)
  \/ TemplateCreateRule
  \/ LogAudit(TRUE)

SpecTemplateTypes == Init /\ [][NextTemplateTypes]_vars

-----------------------------------------------------------------------------
(* SpecAudit: rules are created, updated and deleted by concurrent         *)
(* requests while the INSERT of logAudit may fail on any call              *)

AuditRuleData ==
  {[rule_type |-> "keyword_filter", rule_name |-> "kw block",
    rule_config |-> [keywords |-> Arr(<<Str(T_spam)>>), action |-> "block"], priority |-> 5],
   [rule_type |-> "keyword_filter", rule_config |-> [keywords |-> Arr(<< >>)]],
   [rule_type |-> "keyword_filter", rule_name |-> JsNull,
    rule_config |-> [keywords |-> Arr(<<Str(T_spam)>>)]]}

AuditUpdates == {[priority |-> 3]}

\* the user who creates rules here; every user calls updateRule and deleteRule
AuditOwners == {"u1"}

NextAudit ==
  \/ \E ruleData \in AuditRuleData, userId \in AuditOwners : CreateRule(ruleData, userId)
  \/ \E ruleId \in RuleIds, updates \in AuditUpdates, userId \in Users :
       UpdateRule(ruleId, updates, userId)
  \/ \E ruleId \in RuleIds, userId \in Users : DeleteRule(ruleId, userId)
  \/ \E auditOk \in BOOLEAN : LogAudit(auditOk)
  \/ Tick

SpecAudit == Init /\ [][NextAudit]_vars

-----------------------------------------------------------------------------
(* SpecAccess: the rules of one user are written by their owner, and read  *)
(* and written by every user, while every audit insert succeeds            *)

NextAccess ==
  \/ \E ruleData \in AuditRuleData, userId \in AuditOwners : CreateRule(ruleData, userId)
  \/ \E ruleId \in RuleIds, userId \in Users : GetRule(ruleId, userId)
  \/ \E ruleId \in RuleIds, updates \in UpdatesInputs, userId \in Users :
       UpdateRule(ruleId, updates, userId)
  \/ \E ruleId \in RuleIds, userId \in Users : DeleteRule(ruleId, userId)
  \/ LogAudit(TRUE)
  \/ Tick

SpecAccess == Init /\ [][NextAccess]_vars

-----------------------------------------------------------------------------
(* The seed script (src/unnamed/part_001).  seed() awaits one statement    *)
(* after the other on its own connection, outside a transaction: six       *)
(* INSERTs into privacy_rules that name no id and write no audit entry,    *)
(* three INSERTs into rule_audit_log for the rule ids 'rule-001' to        *)
(* 'rule-003', which no stored rule has, and an INSERT INTO                *)
(* threat_patterns ... ON CONFLICT (pattern_name) that is rejected, since  *)
(* no unique index covers pattern_name.  The rejection ends the script:    *)
(* the rows written so far stay, and the INSERTs into rule_templates are   *)
(* not reached.  seed_pc is the number of statements the running script    *)
(* has completed, 0 when none is running.                                  *)

MaxSeeds == 1

sampleRules ==
  <<[user_id |-> "user-001", rule_type |-> "keyword_filter",
     rule_name |-> "Block Spam Keywords",
     rule_description |-> "Blocks messages containing common spam keywords",
     rule_config |->
       [keywords |-> Arr(<<Str(<<"b", "u", "y", " ", "n", "o", "w">>),
              Str(<<"l", "i", "m", "i", "t", "e", "d", " ", "t", "i", "m", "e">>),
              Str(<<"a", "c", "t", " ", "f", "a", "s", "t">>),
              Str(<<"f", "r", "e", "e", " ", "m", "o", "n", "e", "y">>)>>),
        max_occurrences |-> 2, action |-> "block"],
     priority |-> 1],
    [user_id |-> "user-001", rule_type |-> "url_filter",
     rule_name |-> "Allow Trusted Domains",
     rule_description |-> "Only allows messages from trusted domains",
     rule_config |->
       [domains |-> Arr(<<<<"t", "r", "u", "s", "t", "e", "d", "-", "d", "o", "m", "a", "i", "n", ".",
                "c", "o", "m">>,
              <<"s", "a", "f", "e", "-", "s", "i", "t", "e", ".", "o", "r", "g">>,
              <<"c", "o", "m", "p", "a", "n", "y", ".", "c", "o", "m">>>>),
        action |-> "allow"],
     priority |-> 2],
    [user_id |-> "user-002", rule_type |-> "content_filter",
     rule_name |-> "Content Length Limit",
     rule_description |-> "Flags messages that are too long",
     rule_config |->
       [filters |-> <<[type |-> "length", max_length |-> 500,
                       name |-> "Message Length Limit"]>>,
        action |-> "flag"],
     priority |-> 1],
    [user_id |-> "user-002", rule_type |-> "keyword_filter",
     rule_name |-> "Block Offensive Language",
     rule_description |-> "Blocks messages with offensive language",
     rule_config |->
       [keywords |-> Arr(<<Str(<<"h", "a", "t", "e">>),
              Str(<<"k", "i", "l", "l">>),
              Str(<<"d", "i", "e">>),
              Str(<<"s", "t", "u", "p", "i", "d">>),
              Str(<<"i", "d", "i", "o", "t">>)>>),
        max_occurrences |-> 1, action |-> "block"],
     priority |-> 3],
    [user_id |-> "user-003", rule_type |-> "url_filter",
     rule_name |-> "Block Suspicious URLs",
     rule_description |-> "Blocks messages with suspicious URLs",
     rule_config |->
       [patterns |-> <<<<"h", "t", "t", "p", ":", "/", "/">>,
              <<"b", "i", "t", ".", "l", "y">>,
              <<"t", "i", "n", "y", "u", "r", "l">>>>,
        action |-> "block"],
     priority |-> 1],
    [user_id |-> "test-user", rule_type |-> "keyword_filter",
     rule_name |-> "Test Rule",
     rule_description |-> "A test rule for development",
     rule_config |->
       [keywords |-> Arr(<<Str(<<"t", "e", "s", "t">>),
              Str(<<"d", "e", "b", "u", "g">>),
              Str(<<"d", "e", "v", "e", "l", "o", "p", "m", "e", "n", "t">>)>>),
        max_occurrences |-> 1, action |-> "flag"],
     priority |-> 5]>>

sampleAuditLogs ==
  <<[rule_id |-> "rule-001", action |-> "CREATE", user_id |-> "user-001",
     changes |-> [rule_data |-> sampleRules[1]], ip_address |-> "192.168.1.100"],
    [rule_id |-> "rule-002", action |-> "UPDATE", user_id |-> "user-001",
     changes |-> [priority |-> "Changed from 1 to 2"], ip_address |-> "192.168.1.100"],
    [rule_id |-> "rule-003", action |-> "CREATE", user_id |-> "user-002",
     changes |-> [rule_data |-> sampleRules[3]], ip_address |-> "192.168.1.101"]>>

\* the runs of the script that got through their rule INSERTs
SeedRuns == Cardinality({r \in privacy_rules : r.user_id = "test-user"})

\* one INSERT INTO privacy_rules of the script: the columns it names are
\* those createRule names, with the owner as created_by, and the id is the
\* column default
SeedRule ==
  /\ seed_pc < Len(sampleRules)
  /\ seed_pc = 0 => SeedRuns < MaxSeeds
  /\ LET rule == sampleRules[seed_pc + 1]
     IN  privacy_rules' =
           privacy_rules \cup {createRuleRow(nextId, rule, rule.user_id, now)}
  /\ nextId' = nextId + 1
  /\ seed_pc' = seed_pc + 1
  /\ last' = [op |-> "seed", statements |-> seed_pc + 1]
  /\ UNCHANGED <<rule_audit_log, now, threat_patterns, pending, audit_errors,
                 rule_templates, selected>>

\* one INSERT INTO rule_audit_log of the script
SeedAuditLog ==
  /\ seed_pc >= Len(sampleRules)
  /\ seed_pc < Len(sampleRules) + Len(sampleAuditLogs)
  /\ LET log == sampleAuditLogs[seed_pc - Len(sampleRules) + 1]
     IN  rule_audit_log' =
           Append(rule_audit_log,
                  [rule_id |-> log.rule_id, action |-> log.action,
                   user_id |-> log.user_id, changes |-> log.changes,
                   ip_address |-> log.ip_address, created_at |-> now])
  /\ seed_pc' = seed_pc + 1
  /\ last' = [op |-> "seed", statements |-> seed_pc + 1]
  /\ UNCHANGED <<privacy_rules, now, nextId, threat_patterns, pending, audit_errors,
                 rule_templates, selected>>

\* the first INSERT INTO threat_patterns of the script is rejected and the
\* script ends with the error
SeedThreatPattern ==
  /\ seed_pc = Len(sampleRules) + Len(sampleAuditLogs)
  /\ seed_pc' = 0
  /\ last' = [op |-> "seed", statements |-> seed_pc,
              error |-> "no unique constraint matching the ON CONFLICT specification"]
  /\ UNCHANGED <<privacy_rules, rule_audit_log, now, nextId, threat_patterns, pending,
                 audit_errors,
                 rule_templates, selected>>

-----------------------------------------------------------------------------
(* The threat_patterns table: createThreatPattern and the seeding of the   *)
(* default patterns at start-up.  The table has a primary key on id and no *)
(* unique constraint on pattern_name.                                      *)

MaxPatterns == 3

\* the NOT NULL columns of threat_patterns that createThreatPattern fills:
\* pattern_name and pattern_type are NULL when absent and when null,
\* JSON.stringify(pattern_config) only when the key is absent
PatternInsertAccepted(patternData) ==
  /\ NotNull(patternData, "pattern_name")
  /\ NotNull(patternData, "pattern_type")
  /\ Has(patternData, "pattern_config")

\* createThreatPattern: the row the INSERT stores and returns
createThreatPatternRow(patternId, patternData, t) ==
  [id                  |-> patternId,
   pattern_name        |-> patternData.pattern_name,
   pattern_description |-> IF NotNull(patternData, "pattern_description")
                           THEN patternData.pattern_description ELSE NULL,
   pattern_type        |-> patternData.pattern_type,
   pattern_config      |-> patternData.pattern_config,
   risk_level          |-> IF NotNull(patternData, "risk_level") /\ patternData.risk_level # ""
                           THEN patternData.risk_level ELSE "medium",
   is_active           |-> TRUE,
   created_at          |-> t,
   updated_at          |-> t]

\* createThreatPattern: a fresh id, then the INSERT
CreateThreatPattern(patternData, userId) ==
  /\ Cardinality(threat_patterns) < MaxPatterns
  /\ IF PatternInsertAccepted(patternData)
     THEN LET row == createThreatPatternRow(Cardinality(threat_patterns) + 1,
                                            patternData, now)
          IN  /\ threat_patterns' = threat_patterns \cup {row}
              /\ last' = [op |-> "createThreatPattern", patternData |-> patternData,
                          userId |-> userId, result |-> row]
     ELSE /\ last' = [op |-> "createThreatPattern", patternData |-> patternData,
                      userId |-> userId, error |-> "not-null constraint"]
          /\ UNCHANGED threat_patterns
  /\ UNCHANGED <<privacy_rules, rule_audit_log, now, nextId, pending,
                 audit_errors, seed_pc,
                 rule_templates, selected>>

\* insertDefaultThreatPatterns: the first INSERT ... ON CONFLICT
\* (pattern_name) DO NOTHING is rejected, since no unique index covers
\* pattern_name; the catch logs the error and the table is left as it was
InsertDefaultThreatPatterns ==
  /\ last' = [op |-> "insertDefaultThreatPatterns",
              logged |-> "no unique constraint matching the ON CONFLICT specification"]
  /\ UNCHANGED <<privacy_rules, rule_audit_log, now, nextId, threat_patterns,
                 pending, audit_errors, seed_pc,
                 rule_templates, selected>>

PatternInputs ==
  {[pattern_name |-> "Spam Detection", pattern_type |-> "spam",
    pattern_config |-> [action |-> "block"], risk_level |-> "low"],
   [pattern_name |-> "Spam Detection", pattern_type |-> "spam",
    pattern_config |-> [action |-> "flag"], pattern_description |-> "again"],
   [pattern_name |-> "Malware Link", pattern_type |-> "malware",
    pattern_config |-> [action |-> "block"], risk_level |-> "high"],
   [pattern_name |-> "Untyped", pattern_config |-> [action |-> "block"]],
   [pattern_name |-> JsNull, pattern_type |-> "spam", pattern_config |-> [action |-> "block"]],
   [pattern_name |-> "No Type", pattern_type |-> JsNull, pattern_config |-> JsNull,
    pattern_description |-> "d", risk_level |-> "low"]}

NextThreats ==
  \/ \E patternData \in PatternInputs, userId \in Users :
       CreateThreatPattern(patternData, userId)
  \/ InsertDefaultThreatPatterns
  \/ SeedRule
  \/ SeedAuditLog
  \/ SeedThreatPattern
  \/ Tick

SpecThreats == Init /\ [][NextThreats]_vars

-----------------------------------------------------------------------------
(* Rule validation as a pure function: a candidate is drawn, then          *)
(* validateRule is applied to it                                           *)

CandidateTypes == {"", "keyword_filter", "url_filter", "content_filter", "custom"}

CandidateConfigs ==
  {JsNull, [action |-> "block"],
   [keywords |-> Arr(<< >>)], [keywords |-> Arr(<<Str(T_spam)>>)],
   [keywords |-> Arr(<<Str(T_spam), Str(T_is)>>), max_occurrences |-> 2],
   [keywords |-> Arr(<<Num(5)>>)], [keywords |-> Arr(<<Str(T_spam), Num(5)>>)],
   [keywords |-> Str(T_is)], [keywords |-> Str(T_empty)], [keywords |-> Num(7)],
   [keywords |-> Num(0)], [keywords |-> JsNull],
   [domains |-> Arr(<<T_trusted>>)], [domains |-> Arr(<< >>)], [domains |-> JsNull],
   [domains |-> Str(T_empty), action |-> "flag"], [patterns |-> <<T_bitly>>],
   [patterns |-> << >>], [domains |-> Arr(<<T_safe>>), patterns |-> <<T_paren>>],
   [filters |-> << >>],
   [filters |-> <<[type |-> "regex", pattern |-> T_spam, name |-> "f1"]>>]}

Candidates ==
  {t @@ n @@ c : t \in Opt("rule_type", CandidateTypes),
                 n \in Opt("rule_name", {"", "n"}),
                 c \in Opt("rule_config", CandidateConfigs)}

InitValidate ==
  /\ privacy_rules = {}
  /\ rule_audit_log = << >>
  /\ now = 1
  /\ nextId = 1
  /\ threat_patterns = {}
  /\ pending = << >>
  /\ audit_errors = 0
  /\ seed_pc = 0
  /\ rule_templates = {}
  /\ selected = << >>
  /\ last \in {[op |-> "candidate", candidate |-> c] : c \in Candidates}

ValidateRuleStep ==
  /\ last.op = "candidate"
  /\ last' = [op |-> "validateRule", candidate |-> last.candidate,
              result |-> validateRule(last.candidate)]
  /\ UNCHANGED <<privacy_rules, rule_audit_log, now, nextId, threat_patterns,
                 pending, audit_errors, seed_pc,
                 rule_templates, selected>>

NextValidate == ValidateRuleStep

SpecValidate == InitValidate /\ [][NextValidate]_vars

-----------------------------------------------------------------------------
(* Properties of evaluateRule, checked under SpecEval *)

Evaluated == last.op = "evaluateRule"

ConfigAction(config) == IF Has(config, "action") THEN config.action ELSE "block"

ErrorResult ==
  [action |-> "allow", reason |-> [text |-> "Evaluation error"], matched |-> FALSE]

\* rule configurations the claims name as malformed
NullConfig(rule) == IsNull(rule.rule_config)

LacksArray(rule) ==
  /\ ~ NullConfig(rule)
  /\ \/ rule.rule_type = "keyword_filter" /\ ~ Has(rule.rule_config, "keywords")
     \/ rule.rule_type = "content_filter" /\ ~ Has(rule.rule_config, "filters")

BadKeyword(rule) ==
  /\ rule.rule_type = "keyword_filter"
  /\ ~ NullConfig(rule)
  /\ Has(rule.rule_config, "keywords")
  /\ IsArr(rule.rule_config.keywords)
  /\ \E i \in 1..Len(rule.rule_config.keywords.arr) :
       LET k == rule.rule_config.keywords.arr[i]
       IN  ~ IsStr(k) \/ k.str = T_paren

KnownType(rule) == rule.rule_type \in {"keyword_filter", "url_filter", "content_filter"}

Malformed(rule) ==
  \/ KnownType(rule) /\ NullConfig(rule)
  \/ LacksArray(rule)
  \/ BadKeyword(rule)

\* the type-specific evaluator of the rule throws on the message
RuleFaults(rule, message) ==
  \/ rule.rule_type = "keyword_filter"
       /\ Thrown(evaluateKeywordFilter(rule.rule_config, message))
  \/ rule.rule_type = "url_filter"
       /\ Thrown(evaluateUrlFilter(rule.rule_config, message))
  \/ rule.rule_type = "content_filter"
       /\ Thrown(evaluateContentFilter(rule.rule_config, message))

\* C3: evaluateRule never raises: it always returns an action / reason /
\* matched result, and whenever the evaluation faults (in particular for a
\* rule whose configuration is null, lacks the keywords / filters array, or
\* holds a non-string keyword or an invalid regular expression, whatever the
\* message) the result is allow / not matched with the evaluation-error reason
C3_NeverRaises ==
  Evaluated =>
    /\ ~ Thrown(last.result)
    /\ DOMAIN last.result = {"action", "reason", "matched"}
    /\ Malformed(last.rule) => last.result = ErrorResult
    /\ RuleFaults(last.rule, last.message) => last.result = ErrorResult

\* an invalid keyword expression was evaluated against a text that holds
\* another keyword of the rule, and the outcome is the error result
C3_Witness ==
  /\ Evaluated
  /\ last.rule.rule_type = "keyword_filter"
  /\ ~ NullConfig(last.rule)
  /\ Has(last.rule.rule_config, "keywords")
  /\ last.rule.rule_config.keywords = Arr(<<Str(T_hello), Str(T_paren)>>)
  /\ last.message = [text |-> T_hello]
  /\ last.result = ErrorResult

\* C5 as stated: the action returned by evaluateRule is 'allow' or 'block'
\* whatever the rule's config.action holds
C5_AllowOrBlock ==
  Evaluated => last.result.action \in {"allow", "block"}

\* C5 amended: the action is 'allow' when the rule did not match and the
\* rule's config.action (default 'block') when it matched, so it lies in
\* {allow, block} whenever config.action is absent, 'allow' or 'block'
C5_ActionIsConfigured ==
  Evaluated =>
    /\ ~ last.result.matched => last.result.action = "allow"
    /\ last.result.matched =>
         /\ ~ NullConfig(last.rule)
         /\ last.result.action = ConfigAction(last.rule.rule_config)
    /\ (NullConfig(last.rule) \/ ConfigAction(last.rule.rule_config) \in {"allow", "block"})
         => last.result.action \in {"allow", "block"}

\* a matched content rule configured with action 'flag' returns 'flag'
C5_Witness ==
  /\ Evaluated
  /\ last.rule.rule_type = "content_filter"
  /\ last.result.matched
  /\ ConfigAction(last.rule.rule_config) = "flag"
  /\ last.result.action = "flag"

-----------------------------------------------------------------------------
(* keyword_filter *)

\* positions at which the keyword, read as a case-insensitive expression,
\* occurs in the text
OccurrencesAt(keyword, text) ==
  LET toks == RegExpTokens(toLowerCase(keyword), 1)
  IN  {i \in 1..(Len(text) + 1) : MatchAt(toks, text, i, TRUE)}

\* number of occurrences of the keyword in the text: the most occurrences
\* that can be taken without two of them overlapping
OccurrenceCount(keyword, text) ==
  LET occ == OccurrencesAt(keyword, text)
      len == Len(RegExpTokens(toLowerCase(keyword), 1))
      disjoint(S) == \A i, j \in S : i < j => i + len <= j
  IN  IF len = 0 THEN Cardinality(occ)
      ELSE CHOOSE n \in 0..Cardinality(occ) :
             /\ \E S \in SUBSET occ : disjoint(S) /\ Cardinality(S) = n
             /\ \A S \in SUBSET occ : disjoint(S) => Cardinality(S) <= n

RECURSIVE SumOccurrences(_, _, _)
SumOccurrences(keywords, text, i) ==
  IF i > Len(keywords) THEN 0
  ELSE OccurrenceCount(keywords[i].str, text) + SumOccurrences(keywords, text, i + 1)

\* a keyword_filter rule whose keywords are all strings that are valid
\* expressions
WellFormedKeywordRule(rule) ==
  /\ rule.rule_type = "keyword_filter"
  /\ ~ NullConfig(rule)
  /\ Has(rule.rule_config, "keywords")
  /\ IsArr(rule.rule_config.keywords)
  /\ \A i \in 1..Len(rule.rule_config.keywords.arr) :
       /\ IsStr(rule.rule_config.keywords.arr[i])
       /\ RegExpValid(toLowerCase(rule.rule_config.keywords.arr[i].str))

\* C6: a keyword_filter rule matches exactly when the occurrences of its
\* keywords in the message text, counted case-insensitively and summed over
\* the keywords, reach max_occurrences (1 when absent); the action is
\* config.action ('block' when absent) on a match and 'allow' otherwise, and
\* the reason of a match carries that count
C6_KeywordThreshold ==
  Evaluated /\ WellFormedKeywordRule(last.rule) =>
    LET config == last.rule.rule_config
        total  == SumOccurrences(config.keywords.arr, MessageText(last.message), 1)
        max    == IF Has(config, "max_occurrences") THEN config.max_occurrences ELSE 1
    IN  /\ last.result.matched = (total >= max)
        /\ last.result.action = IF total >= max THEN ConfigAction(config) ELSE "allow"
        /\ last.result.matched => last.result.reason.count = total

\* keywords ['spam'], max_occurrences 1, action 'block' on 'this is spam spam':
\* two occurrences, matched, block
C6_Witness ==
  /\ Evaluated
  /\ last.rule.rule_type = "keyword_filter"
  /\ last.rule.rule_config = [keywords |-> Arr(<<Str(T_spam)>>), max_occurrences |-> 1,
                              action |-> "block"]
  /\ last.message = [text |-> T_spam2]
  /\ last.result.matched
  /\ last.result.action = "block"
  /\ last.result.reason.count = 2

-----------------------------------------------------------------------------
(* url_filter *)

\* a url_filter rule whose domains, when given, are a list and whose
\* patterns, when given, are all valid expressions
WellFormedUrlRule(rule) ==
  /\ rule.rule_type = "url_filter"
  /\ ~ NullConfig(rule)
  /\ Has(rule.rule_config, "domains") => IsArr(rule.rule_config.domains)
  /\ Has(rule.rule_config, "patterns") =>
       \A p \in 1..Len(rule.rule_config.patterns) : RegExpValid(rule.rule_config.patterns[p])

\* the host of the url contains a listed domain
DomainHit(config, url) ==
  /\ Has(config, "domains")
  /\ \E d \in 1..Len(config.domains.arr) : includes(extractDomain(url), config.domains.arr[d])

\* positions of the patterns that match the raw url
PatternHits(config, url) ==
  IF Has(config, "patterns")
  THEN {p \in 1..Len(config.patterns) : RegExpTest(config.patterns[p], url, FALSE)}
  ELSE {}

Min(S) == CHOOSE x \in S : \A y \in S : x <= y

\* positions of the urls that match a pattern with no domain hit at that url
\* or at an earlier one
DecidingUrls(config, urls) ==
  {u \in 1..Len(urls) :
     /\ PatternHits(config, urls[u]) # {}
     /\ \A v \in 1..u : ~ DomainHit(config, urls[v])}

\* C7: urls are examined in text order and, per url, the domain list before
\* the patterns: when a url's host contains a listed domain and no earlier
\* url matched a pattern, the rule returns allow / not matched, even if that
\* url or a later one matches a pattern; when a url matches a pattern and
\* neither it nor an earlier url hits a listed domain, the rule matches
C7_FirstUrlDecides ==
  Evaluated /\ WellFormedUrlRule(last.rule) =>
    LET config == last.rule.rule_config
        urls   == extractUrls(MessageText(last.message))
    IN  /\ \A u \in 1..Len(urls) :
             /\ DomainHit(config, urls[u])
             /\ \A v \in 1..(u - 1) : PatternHits(config, urls[v]) = {}
             => /\ ~ last.result.matched
                /\ last.result.action = "allow"
        /\ \A u \in 1..Len(urls) :
             /\ PatternHits(config, urls[u]) # {}
             /\ \A v \in 1..u : ~ DomainHit(config, urls[v])
             => last.result.matched

\* an allow-listed url comes first and a later url matches a pattern: allowed
C7_Witness ==
  /\ Evaluated
  /\ WellFormedUrlRule(last.rule)
  /\ last.message = [text |-> T_urlTrustedThenBitly]
  /\ DomainHit(last.rule.rule_config, extractUrls(T_urlTrustedThenBitly)[1])
  /\ PatternHits(last.rule.rule_config, extractUrls(T_urlTrustedThenBitly)[2]) # {}
  /\ ~ last.result.matched
  /\ last.result.reason.text = "Domain allowed"

\* C8: a message without an http(s):// url gives allow / not matched;
\* otherwise the rule matches exactly when some url matches a pattern with no
\* domain hit at or before it, the match is reported for the first such url
\* and its first matching pattern with action config.action ('block' when
\* absent), and a rule that does not match returns allow
C8_UrlPatternMatch ==
  Evaluated /\ WellFormedUrlRule(last.rule) =>
    LET config   == last.rule.rule_config
        urls     == extractUrls(MessageText(last.message))
        deciding == DecidingUrls(config, urls)
    IN  /\ Len(urls) = 0 =>
             last.result = [action |-> "allow", reason |-> [text |-> "No URLs found"],
                            matched |-> FALSE]
        /\ last.result.matched = (deciding # {})
        /\ deciding # {} =>
             /\ last.result.action = ConfigAction(config)
             /\ last.result.reason.pattern =
                  config.patterns[Min(PatternHits(config, urls[Min(deciding)]))]
        /\ deciding = {} => last.result.action = "allow"
        /\ (\A u \in 1..Len(urls) :
              ~ DomainHit(config, urls[u]) /\ PatternHits(config, urls[u]) = {})
             /\ Len(urls) > 0
           => last.result = [action |-> "allow",
                             reason |-> [text |-> "No URL restrictions matched"],
                             matched |-> FALSE]

\* patterns ['bit\.ly'] without an action on 'check http://bit.ly/abc':
\* matched with the default action 'block'
C8_Witness ==
  /\ Evaluated
  /\ last.rule.rule_type = "url_filter"
  /\ last.rule.rule_config = [patterns |-> <<T_bitly>>]
  /\ last.message = [text |-> T_urlBitly]
  /\ last.result.matched
  /\ last.result.action = "block"

-----------------------------------------------------------------------------
(* content_filter *)

\* a content_filter rule whose filters are objects with a type, and whose
\* regex filters carry a valid pattern
WellFormedContentRule(rule) ==
  /\ rule.rule_type = "content_filter"
  /\ ~ NullConfig(rule)
  /\ Has(rule.rule_config, "filters")
  /\ \A i \in 1..Len(rule.rule_config.filters) :
       LET f == rule.rule_config.filters[i]
       IN  /\ ~ IsNull(f)
           /\ Has(f, "type")
           /\ f.type = "regex" => Has(f, "pattern") /\ RegExpValid(f.pattern)
           /\ f.type = "length" => Has(f, "max_length")

FilterMatches(f, text) ==
  \/ f.type = "regex" /\ RegExpTest(f.pattern, text, FALSE)
  \/ f.type = "length" /\ Len(text) > f.max_length

\* C9: the filters of a content_filter rule are tried in list order and the
\* first one that matches decides: a regex filter matches when its pattern
\* matches the text, a length filter only when the text is strictly longer
\* than max_length, a filter of another type never; a match gives matched
\* with config.action ('block' when absent) and names the deciding filter,
\* no match gives allow / not matched
C9_FirstFilterDecides ==
  Evaluated /\ WellFormedContentRule(last.rule) =>
    LET config   == last.rule.rule_config
        text     == MessageText(last.message)
        matching == {i \in 1..Len(config.filters) : FilterMatches(config.filters[i], text)}
    IN  /\ last.result.matched = (matching # {})
        /\ matching # {} =>
             LET f == config.filters[Min(matching)]
             IN  /\ last.result.action = ConfigAction(config)
                 /\ f.type = "regex" =>
                      last.result.reason = [text |-> "Content matched filter",
                                            name |-> f.name]
                 /\ f.type = "length" =>
                      last.result.reason = [text |-> "Content too long",
                                            length |-> Len(text),
                                            max_length |-> f.max_length]
        /\ matching = {} =>
             last.result = [action |-> "allow",
                            reason |-> [text |-> "No content filters matched"],
                            matched |-> FALSE]

\* a text exactly max_length long passes the length filter and is decided by
\* the regex filter behind it
C9_Witness ==
  /\ Evaluated
  /\ last.rule.rule_type = "content_filter"
  /\ WellFormedContentRule(last.rule)
  /\ Len(last.rule.rule_config.filters) = 2
  /\ last.rule.rule_config.filters[1].type = "length"
  /\ last.rule.rule_config.filters[1].max_length = Len(MessageText(last.message))
  /\ last.result.matched
  /\ last.result.reason = [text |-> "Content matched filter", name |-> "f2"]

-----------------------------------------------------------------------------
(* Properties of evaluateRules and getUserRules, checked under Spec.  A    *)
(* read leaves the tables as they are, so in a state whose last call is a  *)
(* read, privacy_rules is the table the read has seen.                     *)

EvaluatedAll == last.op = "evaluateRules"

IsBlocking(entry) == entry.action = "block" /\ entry.matched

\* the k-th smallest element of a set of positions
Nth(S, k) == CHOOSE i \in S : Cardinality({j \in S : j <= i}) = k

\* C1: blocking_rules is exactly the entries of rule_evaluations with action
\* 'block' and matched = true, in the same relative order, and final_action
\* is 'block' iff blocking_rules is non-empty and 'allow' otherwise; a matched
\* rule with action 'flag' or 'allow' never makes final_action 'block'
C1_BlockingAggregation ==
  EvaluatedAll =>
    LET evals    == last.result.rule_evaluations
        blocking == last.result.blocking_rules
        at       == {i \in 1..Len(evals) : IsBlocking(evals[i])}
    IN  /\ Len(blocking) = Cardinality(at)
        /\ \A k \in 1..Len(blocking) : blocking[k] = evals[Nth(at, k)]
        /\ last.result.final_action = IF Len(blocking) > 0 THEN "block" ELSE "allow"
        /\ (\A i \in 1..Len(evals) : evals[i].matched => evals[i].action \in {"flag", "allow"})
             => last.result.final_action = "allow"

\* a matched 'flag' rule is evaluated ahead of a matched 'block' rule: only
\* the second is blocking, and the final action is 'block'
C1_Witness ==
  /\ EvaluatedAll
  /\ Len(last.result.rule_evaluations) = 2
  /\ last.result.rule_evaluations[1].matched
  /\ last.result.rule_evaluations[1].action = "flag"
  /\ IsBlocking(last.result.rule_evaluations[2])
  /\ last.result.blocking_rules = <<last.result.rule_evaluations[2]>>
  /\ last.result.final_action = "block"

\* the owner's active rows of the table
ActiveRulesOf(userId) ==
  {r \in privacy_rules : r.user_id = userId /\ r.is_active}

RuleById(ruleId) == CHOOSE r \in privacy_rules : r.id = ruleId

\* C2: rule_evaluations holds exactly one entry per rule of the owner that
\* is active when the rules are listed, none for any other rule, ordered by
\* priority descending and then created_at descending as getUserRules
\* returned them, whether or not an earlier rule blocks; without active
\* rules the result is allow with no evaluations and no blocking rules
C2_EveryActiveRuleEvaluated ==
  EvaluatedAll =>
    LET evals  == last.result.rule_evaluations
        active == ActiveRulesOf(last.userId)
    IN  /\ Len(evals) = Cardinality(active)
        /\ {evals[i].rule_id : i \in 1..Len(evals)} = {r.id : r \in active}
        /\ \A i \in 1..Len(evals) : evals[i].rule_id = last.rules[i].id
        /\ \A i, j \in 1..Len(evals) :
             i < j =>
               LET a == RuleById(evals[i].rule_id)
                   b == RuleById(evals[j].rule_id)
               IN  \/ a.priority > b.priority
                   \/ a.priority = b.priority /\ a.created_at >= b.created_at
        /\ active = {} =>
             last.result = [final_action |-> "allow", rule_evaluations |-> << >>,
                            blocking_rules |-> << >>]

\* the first rule of the scan blocks and the rule behind it is evaluated too
C2_Witness ==
  /\ EvaluatedAll
  /\ Len(last.result.rule_evaluations) = 2
  /\ IsBlocking(last.result.rule_evaluations[1])
  /\ RuleById(last.result.rule_evaluations[1].rule_id).priority
       > RuleById(last.result.rule_evaluations[2].rule_id).priority

\* C4 as stated: a rule whose evaluation faults appears in rule_evaluations
\* with action 'allow', matched false and the error text in its error field,
\* and every rule of the list has its entry
C4_FaultCarriesError ==
  EvaluatedAll =>
    /\ Len(last.result.rule_evaluations) = Len(last.rules)
    /\ \A i \in 1..Len(last.rules) :
         RuleFaults(last.rules[i], last.message) =>
           LET entry == last.result.rule_evaluations[i]
           IN  /\ entry.rule_id = last.rules[i].id
               /\ entry.action = "allow"
               /\ ~ entry.matched
               /\ Has(entry, "error")

\* C10: getUserRules returns exactly the rows of the owner that satisfy the
\* rule_type and is_active filters, each once, sorted by priority descending
\* and then created_at descending, whatever the order of insertion
C10_ListFilteredAndSorted ==
  last.op = "getUserRules" =>
    LET rows == last.result
    IN  /\ \A i, j \in 1..Len(rows) : i # j => rows[i].id # rows[j].id
        /\ {rows[i] : i \in 1..Len(rows)} =
             {r \in privacy_rules :
                /\ r.user_id = last.userId
                /\ Has(last.filters, "rule_type") => r.rule_type = last.filters.rule_type
                /\ Has(last.filters, "is_active") => r.is_active = last.filters.is_active}
        /\ \A i, j \in 1..Len(rows) :
             i < j => \/ rows[i].priority > rows[j].priority
                      \/ /\ rows[i].priority = rows[j].priority
                         /\ rows[i].created_at >= rows[j].created_at

\* the rule inserted first and created earlier is listed ahead of the newer
\* rule because its priority is higher
C10_Witness ==
  /\ last.op = "getUserRules"
  /\ Len(last.result) = 2
  /\ last.result[1].id < last.result[2].id
  /\ last.result[1].created_at < last.result[2].created_at
  /\ last.result[1].priority > last.result[2].priority

-----------------------------------------------------------------------------
(* Ownership and the frame of updateRule and deleteRule, checked under Spec *)

NotFoundOrDenied == "Rule not found or access denied"

\* the latest call named a rule id that a different user owns
CrossOwner(call, rules) ==
  \E r \in rules : r.id = call.ruleId /\ r.user_id # call.userId

\* C11: updateRule or deleteRule called with a rule id that belongs to a
\* different user fails with 'Rule not found or access denied', leaves the
\* rule (and the whole table) as it was, and the owner's getRule query
\* still selects exactly that rule
C11_CrossOwnerDenied ==
  [][\A r \in privacy_rules :
       (/\ last'.op \in {"updateRule", "deleteRule"}
        /\ r.id = last'.ruleId
        /\ r.user_id # last'.userId)
       => /\ Has(last', "error")
          /\ last'.error = NotFoundOrDenied
          /\ ~ Has(last', "result")
          /\ privacy_rules' = privacy_rules
          /\ RowsByIdAndUser(privacy_rules', r.id, r.user_id) = {r}]_vars

\* a deleteRule of another user's rule was refused and the rule is still
\* stored under its owner
C11_Witness ==
  /\ last.op = "deleteRule"
  /\ Has(last, "error")
  /\ last.error = NotFoundOrDenied
  /\ CrossOwner(last, privacy_rules)

\* the rows a caller owns
OwnRules(rules, userId) == {r \in rules : r.user_id = userId}

\* what a caller observes when no row of its own has the id
NotFoundOutcome(call) ==
  CASE call.op = "getRule" ->
         [op |-> "getRule", ruleId |-> call.ruleId, userId |-> call.userId,
          error |-> "Rule not found"]
    [] call.op = "updateRule" ->
         [op |-> "updateRule", ruleId |-> call.ruleId, updates |-> call.updates,
          userId |-> call.userId, error |-> NotFoundOrDenied]
    [] call.op = "deleteRule" ->
         [op |-> "deleteRule", ruleId |-> call.ruleId, userId |-> call.userId,
          error |-> NotFoundOrDenied]

\* C12: for getRule, updateRule and deleteRule the error and the data a
\* caller gets depend only on the rows that caller owns: whenever the caller
\* owns no row of the id the outcome is the same fixed error, whether the id
\* is absent or stored under another user, and otherwise the data comes from
\* the caller's own row
C12_InformationHiding ==
  [][(last' # last /\ last'.op \in {"getRule", "updateRule", "deleteRule"}) =>
       LET mine == {r \in OwnRules(privacy_rules, last'.userId) : r.id = last'.ruleId}
       IN  IF mine = {}
           THEN last' = NotFoundOutcome(last')
           ELSE /\ ~ Has(last', "error")
                /\ Has(last', "result")
                /\ \E r \in mine :
                     last'.result = IF last'.op = "updateRule"
                                    THEN updateRuleRow(r, last'.updates, last'.userId, now)
                                    ELSE r]_vars

\* getRule on an id stored under another user answered 'Rule not found'
C12_Witness ==
  /\ last.op = "getRule"
  /\ Has(last, "error")
  /\ last.error = "Rule not found"
  /\ CrossOwner(last, privacy_rules)

\* the columns an update may set, and the columns it never touches
UpdatableColumns == {"rule_name", "rule_description", "rule_config", "priority", "is_active"}

FixedColumns == {"id", "user_id", "rule_type", "created_at", "created_by"}

\* the update gives the column a value that the UPDATE writes: the key is
\* present, its value is not null and, for rule_config, not false, 0 or ''
GivesValue(updates, c) ==
  /\ Has(updates, c)
  /\ ~ IsJsNull(updates[c])
  /\ c = "rule_config" =>
       ToString(updates[c]) \notin
         {ToString(Bool(FALSE)), ToString(Num(0)), ToString(Str(<< >>))}

\* C13: a successful updateRule changes only columns that are present in
\* the update: every absent one of rule_name, rule_description,
\* rule_config, priority and is_active keeps its value, a present one holds
\* the given value afterwards, unless that is null or, for rule_config,
\* false, 0 or '', and then it keeps its value too; updated_at is the time
\* of the call and updated_by the caller; id, user_id, rule_type,
\* created_at and created_by are kept; and no other row is touched
C13_UpdateFrame ==
  [][(last' # last /\ last'.op = "updateRule" /\ Has(last', "result")) =>
       \E old \in RowsByIdAndUser(privacy_rules, last'.ruleId, last'.userId) :
         LET new == last'.result
         IN  /\ privacy_rules' = (privacy_rules \ {old}) \cup {new}
             /\ \A c \in UpdatableColumns :
                  /\ ~ Has(last'.updates, c) => new[c] = old[c]
                  /\ new[c] # old[c] => Has(last'.updates, c)
                  /\ GivesValue(last'.updates, c) => new[c] = last'.updates[c]
                  /\ ~ GivesValue(last'.updates, c) => new[c] = old[c]
             /\ \A c \in FixedColumns : new[c] = old[c]
             /\ new.updated_at = now
             /\ new.updated_by = last'.userId]_vars

\* an update of the priority alone, made after the clock moved on from the
\* creation: name, configuration and activity are those of the created row
C13_Witness ==
  /\ last.op = "updateRule"
  /\ Has(last, "result")
  /\ DOMAIN last.updates = {"priority"}
  /\ last.result.priority = last.updates.priority
  /\ last.result.updated_at > last.result.created_at
  /\ last.result.updated_by = last.userId
  /\ last.result.is_active
  /\ last.result \in privacy_rules

\* the ids of the stored rows
StoredIds(rules) == {r.id : r \in rules}

\* the rule ids that a listing or an evaluation of the owner's rules shows
ListedIds(rules, userId) ==
  UNION {{s[i].id : i \in 1..Len(s)} :
           s \in UNION {getUserRules(rules, userId, f) : f \in FiltersInputs}}

EvaluatedIds(rules, userId) ==
  UNION {{evaluateRules(s, m).rule_evaluations[i].rule_id : i \in 1..Len(s)} :
           s \in getUserRules(rules, userId, [is_active |-> TRUE]), m \in MessageInputs}

\* C18: deleteRule by the owner returns the row as it was stored and removes
\* it: the owner's getRule query selects nothing for the id, and no listing
\* and no evaluation of the owner's rules shows it; deleteRule on an id the
\* caller has no row of fails and leaves the table as it was; and no step
\* brings a removed id back, since rows only appear under the fresh id
C18_HardDelete ==
  [][/\ (last' # last /\ last'.op = "deleteRule") =>
          LET rows == RowsByIdAndUser(privacy_rules, last'.ruleId, last'.userId)
          IN  IF rows = {}
              THEN /\ Has(last', "error")
                   /\ last'.error = NotFoundOrDenied
                   /\ privacy_rules' = privacy_rules
              ELSE /\ Has(last', "result")
                   /\ last'.result \in rows
                   /\ privacy_rules' = privacy_rules \ {last'.result}
                   /\ RowsByIdAndUser(privacy_rules', last'.ruleId, last'.userId) = {}
                   /\ last'.ruleId \notin StoredIds(privacy_rules')
                   /\ last'.ruleId \notin ListedIds(privacy_rules', last'.userId)
                   /\ last'.ruleId \notin EvaluatedIds(privacy_rules', last'.userId)
     /\ StoredIds(privacy_rules') \subseteq StoredIds(privacy_rules) \cup {nextId}
     /\ nextId \in StoredIds(privacy_rules') => nextId' > nextId
     /\ nextId' >= nextId]_vars

\* the owner deleted an active rule and got the stored row back; the id is
\* stored no more
C18_Witness ==
  /\ last.op = "deleteRule"
  /\ Has(last, "result")
  /\ last.result.id = last.ruleId
  /\ last.result.user_id = last.userId
  /\ last.result.is_active
  /\ last.ruleId \notin StoredIds(privacy_rules)
  /\ last.ruleId < nextId

-----------------------------------------------------------------------------
(* Bounds on what is persisted *)

\* C14 as stated: every stored rule has a priority between 1 and 10
C14_PriorityBounded ==
  \A r \in privacy_rules : r.priority \in 1..10

-----------------------------------------------------------------------------
(* Properties of validateRule, checked under SpecValidate *)

Validated == last.op = "validateRule"

KeywordsError == "Keywords array is required for keyword_filter rule type"

\* the presence errors the claim lists, in its order
PresenceErrors(candidate) ==
  (IF Blank(candidate, "rule_type") THEN <<"Rule type is required">> ELSE << >>)
    \o (IF Blank(candidate, "rule_name") THEN <<"Rule name is required">> ELSE << >>)
    \o (IF NoConfig(candidate) THEN <<"Rule configuration is required">> ELSE << >>)

\* C16 as stated: validateRule returns (it does not throw), isValid tells
\* whether errors is empty, and errors starts with the presence errors for
\* rule_type, rule_name and rule_config in that order, followed by at most
\* the one error of the type-specific check; so a keyword_filter, url_filter
\* or content_filter candidate without rule_config gets 'Rule configuration
\* is required'
C16_SpecificErrors ==
  Validated =>
    LET result   == last.result
        presence == PresenceErrors(last.candidate)
    IN  /\ ~ Thrown(result)
        /\ result.isValid = (Len(result.errors) = 0)
        /\ Len(result.errors) \in {Len(presence), Len(presence) + 1}
        /\ SubSeq(result.errors, 1, Len(presence)) = presence

\* keywords is a non-empty array whose elements are all strings
KeywordsWellFormed(candidate) ==
  /\ ~ NoConfig(candidate)
  /\ Has(candidate.rule_config, "keywords")
  /\ IsArr(candidate.rule_config.keywords)
  /\ Len(candidate.rule_config.keywords.arr) > 0
  /\ \A i \in 1..Len(candidate.rule_config.keywords.arr) :
       IsStr(candidate.rule_config.keywords.arr[i])

\* C17 as stated: a keyword_filter candidate is valid only if keywords is a
\* non-empty array of strings; with keywords absent, not an array, empty or
\* holding a non-string the result is invalid and names the keywords
C17_KeywordsNonEmptyStrings ==
  (/\ Validated
   /\ Has(last.candidate, "rule_type")
   /\ last.candidate.rule_type = "keyword_filter"
   /\ ~ NoConfig(last.candidate)) =>
    /\ last.result.isValid => KeywordsWellFormed(last.candidate)
    /\ ~ KeywordsWellFormed(last.candidate) =>
         /\ ~ last.result.isValid
         /\ \E i \in 1..Len(last.result.errors) : last.result.errors[i] = KeywordsError

-----------------------------------------------------------------------------
(* The shape of what is persisted, checked under SpecRoutes *)

\* the type-specific check of validateRule passes on a stored row
ShapeValid(r) ==
  /\ ~ IsNull(r.rule_config)
  /\ TypeErrors(r.rule_type, r.rule_config) = << >>

\* C15 as stated: the rule_config of every stored rule passes the
\* type-specific check of validateRule for the rule's rule_type, whether the
\* rule came from POST /rules, from a template or was updated
C15_StoredShapeValid ==
  \A r \in privacy_rules : ShapeValid(r)

-----------------------------------------------------------------------------
(* The audit log, checked under SpecAudit *)

Mutations == {"createRule", "updateRule", "deleteRule"}

\* the latest step was the audit write of a request, and the write failed
AuditFailed(call) == call.op = "logAudit" /\ ~ call.auditOk

\* C19: when the audit write of createRule, updateRule or deleteRule fails,
\* the call raises nothing and returns the row its rule statement selected,
\* as it does when the write succeeds; the table keeps the mutation (the
\* failure changes no rule) and the audit log is unchanged
C19_AuditFailureSwallowed ==
  [][(last' # last /\ AuditFailed(last')) =>
       /\ ~ Has(last', "error")
       /\ Has(last', "result")
       /\ last'.call \in Mutations
       /\ rule_audit_log' = rule_audit_log
       /\ privacy_rules' = privacy_rules
       /\ \E i \in 1..Len(pending) :
            LET p == pending[i]
            IN  /\ pending' = Others(i)
                /\ last'.call = p.op
                /\ last'.result = p.result
                /\ p.op = "deleteRule" => p.result \notin privacy_rules]_vars

\* an update went through although its audit write failed: the row is
\* stored with the new priority and the log has no UPDATE entry for it
C19_Witness ==
  /\ AuditFailed(last)
  /\ last.call = "updateRule"
  /\ last.result \in privacy_rules
  /\ last.result.priority = 3
  /\ \A i \in 1..Len(rule_audit_log) :
       ~ (rule_audit_log[i].rule_id = last.ruleId /\ rule_audit_log[i].action = "UPDATE")

\* C20: every step leaves the entries of the audit log as they are and
\* appends at most one; an entry is appended only for a createRule,
\* updateRule or deleteRule call whose rule statement was applied in an
\* earlier step, once per call, and it names that call's rule, user and
\* kind; a call that failed or was denied appends nothing and never comes
\* to its audit write
C20_AuditAppendOnly ==
  [][/\ Len(rule_audit_log') \in {Len(rule_audit_log), Len(rule_audit_log) + 1}
     /\ SubSeq(rule_audit_log', 1, Len(rule_audit_log)) = rule_audit_log
     /\ (last' # last /\ Has(last', "error")) =>
          /\ rule_audit_log' = rule_audit_log
          /\ pending' = pending
          /\ privacy_rules' = privacy_rules
     /\ Len(rule_audit_log') = Len(rule_audit_log) + 1 =>
          LET entry == rule_audit_log'[Len(rule_audit_log')]
          IN  /\ privacy_rules' = privacy_rules
              /\ \E i \in 1..Len(pending) :
                   LET p == pending[i]
                   IN  /\ pending' = Others(i)
                       /\ entry.rule_id = p.result.id
                       /\ entry.user_id = p.userId
                       /\ p.result.user_id = p.userId
                       /\ entry.action = p.action
     /\ Len(pending') > Len(pending) =>
          LET p == pending'[Len(pending')]
          IN
          /\ pending' = Append(pending, p)
          /\ rule_audit_log' = rule_audit_log
          /\ CASE p.action = "CREATE" -> p.result \in privacy_rules' \ privacy_rules
               [] p.action = "UPDATE" -> p.result \in privacy_rules' /\ p.result.id = p.ruleId
               [] p.action = "DELETE" ->
                    /\ p.result \in privacy_rules \ privacy_rules'
                    /\ p.ruleId \notin StoredIds(privacy_rules')]_vars

\* the log still holds the CREATE entry of a rule after the rule was
\* deleted, followed by the DELETE entry
C20_Witness ==
  /\ last.op = "logAudit"
  /\ last.call = "deleteRule"
  /\ Len(rule_audit_log) = 2
  /\ rule_audit_log[1].action = "CREATE"
  /\ rule_audit_log[2].action = "DELETE"
  /\ rule_audit_log[1].rule_id = rule_audit_log[2].rule_id
  /\ rule_audit_log[2].rule_id \notin StoredIds(privacy_rules)

-----------------------------------------------------------------------------
(* Rules created from templates, checked under SpecTemplates and           *)
(* SpecRoutes.  A createRuleFromTemplate step is the template SELECT (its  *)
(* outcome has no result) or the createRule that follows it (its outcome   *)
(* has the template row the SELECT read, and the stored row as result).    *)

FromTemplate(call) == call.op = "createRuleFromTemplate"

\* the table holds a public template of the id
HasPublicTemplate(templateId) ==
  \E t \in rule_templates : t.id = templateId /\ t.is_public

\* C21: a createRuleFromTemplate whose SELECT is served while no template
\* has the id, or only a template that is not public has it, fails with
\* 'Template not found', stores no rule, writes no audit entry and leaves
\* nothing in flight that would; a request goes on to createRule only with
\* a public row of its id that the table held when its SELECT was served
C21_TemplateNotFound ==
  [][/\ (/\ last' # last
         /\ FromTemplate(last')
         /\ ~ Has(last', "result")
         /\ ~ HasPublicTemplate(last'.templateId)) =>
          /\ Has(last', "error")
          /\ last'.error = "Template not found"
          /\ privacy_rules' = privacy_rules
          /\ rule_audit_log' = rule_audit_log
          /\ nextId' = nextId
          /\ pending' = pending
          /\ selected' = selected
     /\ Len(selected') > Len(selected) =>
          LET s == selected'[Len(selected')]
          IN  /\ selected' = Append(selected, s)
              /\ s.template \in rule_templates
              /\ s.template.id = s.templateId
              /\ s.template.is_public
     /\ (last' # last /\ FromTemplate(last') /\ Has(last', "result")) =>
          \E i \in 1..Len(selected) :
            /\ selected' = OthersSelected(i)
            /\ selected[i].templateId = last'.templateId
            /\ selected[i].template = last'.template]_vars

\* the id of a template that is not public was refused
C21_Witness ==
  /\ FromTemplate(last)
  /\ Has(last, "error")
  /\ last.error = "Template not found"
  /\ \E t \in rule_templates : t.id = last.templateId /\ ~ t.is_public

\* a rule was created from a template
CreatedFromTemplate == FromTemplate(last) /\ Has(last, "result")

\* C22: the rule_config of the rule stored by createRuleFromTemplate has the
\* keys of the config of the template row it read and of the
\* customizations; every key of the customizations has the customization's
\* value and every other key the template's
C22_ShallowMerge ==
  CreatedFromTemplate =>
    LET config   == last.result.rule_config
        custom   == last.customizations
        template == last.template.template_config
    IN  /\ last.result \in privacy_rules
        /\ last.template.id = last.templateId
        /\ DOMAIN config = DOMAIN custom \cup DOMAIN template
        /\ \A k \in DOMAIN custom : ToString(config[k]) = ToString(custom[k])
        /\ \A k \in DOMAIN template \ DOMAIN custom :
             ToString(config[k]) = ToString(template[k])

\* a template with action 'allow' and a customization with action 'block':
\* the stored rule has action 'block'
C22_Witness ==
  /\ CreatedFromTemplate
  /\ last.template.template_config.action = "allow"
  /\ Has(last.customizations, "action")
  /\ last.customizations.action = "block"
  /\ last.result.rule_config.action = "block"
  /\ last.result \in privacy_rules

\* the rule_type embedded in a template's config, 'custom' without one
EmbeddedType(template) ==
  IF NotNull(template.template_config, "rule_type")
       /\ template.template_config.rule_type # ""
  THEN template.template_config.rule_type ELSE "custom"

\* C23 as stated: the rule created from a template has the template's
\* embedded rule_type ('custom' without one), and rule_name,
\* rule_description and priority are the customization's whenever the
\* customization has the key and otherwise the template's (a template
\* carries no priority: the default 1)
C23_CustomizationWhenPresent ==
  CreatedFromTemplate =>
    LET rule     == last.result
        custom   == last.customizations
        template == last.template
    IN  /\ rule.rule_type = EmbeddedType(template)
        /\ ToString(rule.rule_name) =
             ToString(IF Has(custom, "rule_name")
                      THEN custom.rule_name ELSE template.template_name)
        /\ ToString(rule.rule_description) =
             ToString(IF Has(custom, "rule_description")
                      THEN custom.rule_description ELSE template.template_description)
        /\ ToString(rule.priority) =
             ToString(IF Has(custom, "priority") THEN custom.priority ELSE 1)

\* C23 amended: rule_name, rule_description and priority are the
\* customization's when the customization has a value for the key other
\* than null, the empty string or 0, and otherwise the template's name and
\* description and the priority 1
C23_CustomizationWhenTruthy ==
  CreatedFromTemplate =>
    LET rule     == last.result
        custom   == last.customizations
        template == last.template
    IN  /\ rule.rule_type = EmbeddedType(template)
        /\ rule.rule_name = IF NotNull(custom, "rule_name") /\ custom.rule_name # ""
                            THEN custom.rule_name ELSE template.template_name
        /\ rule.rule_description = IF NotNull(custom, "rule_description")
                                      /\ custom.rule_description # ""
                                   THEN custom.rule_description
                                   ELSE template.template_description
        /\ rule.priority = IF NotNull(custom, "priority") /\ custom.priority # 0
                           THEN custom.priority ELSE 1

\* a customization with an empty rule_name and priority 0 on a template
\* without an embedded type: the rule is 'custom', carries the template's
\* name and the priority 1
C23_Witness ==
  /\ CreatedFromTemplate
  /\ NotNull(last.customizations, "rule_name")
  /\ last.customizations.rule_name = ""
  /\ last.customizations.priority = 0
  /\ last.result.rule_type = "custom"
  /\ last.result.rule_name = last.template.template_name
  /\ last.result.priority = 1

\* C30 as stated: for a rule created from a template, the rule_type
\* embedded in the stored rule_config is the rule_type of the rule, also
\* when the customizations carry a rule_type of their own
C30_TypeMatchesConfig ==
  (CreatedFromTemplate /\ Has(last.result.rule_config, "rule_type")) =>
    ToString(last.result.rule_config.rule_type) = ToString(last.result.rule_type)

-----------------------------------------------------------------------------
(* The threat pattern catalog, checked under SpecThreats *)

\* C24 as stated: the catalog holds at most one pattern of a name, however
\* often a pattern of that name was created
C24_OneEntryPerName ==
  \A p, q \in threat_patterns : p.pattern_name = q.pattern_name => p = q

-----------------------------------------------------------------------------
(* Evaluation of one rule, checked under SpecEval *)

\* the text the claim selects: text whenever the field is present
PresentText(message) ==
  IF Has(message, "text") THEN message.text
  ELSE IF Has(message, "content") THEN message.content
  ELSE << >>

\* the first non-empty of text and content, else the empty string
NonEmptyText(message) ==
  IF Has(message, "text") /\ message.text # << >> THEN message.text
  ELSE IF Has(message, "content") /\ message.content # << >> THEN message.content
  ELSE << >>

\* C25 as stated: every rule type is matched against message.text whenever
\* the text field is present, the empty string included, against
\* message.content only when text is absent, and against "" when both are
C25_TextWhenPresent ==
  Evaluated =>
    last.result = evaluateRule(last.rule, [text |-> PresentText(last.message)])

\* C25: every rule type is matched against message.text when it is a
\* non-empty string, else against message.content when that is a non-empty
\* string, else against ""; an empty text gives way to the content
C25_TextWhenNonEmpty ==
  Evaluated =>
    last.result = evaluateRule(last.rule, [text |-> NonEmptyText(last.message)])

\* an empty text beside a content that the rule matches
C25_Witness ==
  /\ Evaluated
  /\ Has(last.message, "text") /\ last.message.text = << >>
  /\ Has(last.message, "content") /\ last.message.content # << >>
  /\ last.result.matched

\* C27: an evaluation with matched = false has action 'allow', in the result
\* of evaluateRule and in the entry evaluateRules builds from it, for the
\* three rule types, an unknown type and the error paths
C27_UnmatchedAllows ==
  Evaluated =>
    LET entry == RuleEvaluation([id |-> 1, rule_name |-> "r"] @@ last.rule, last.message)
    IN  /\ ~ last.result.matched => last.result.action = "allow"
        /\ ~ entry.matched => entry.action = "allow"

\* a rule configured to block whose evaluation failed
C27_Witness ==
  /\ Evaluated
  /\ Has(last.rule.rule_config, "action") /\ last.rule.rule_config.action = "block"
  /\ last.result.reason.text = "Evaluation error"
  /\ ~ last.result.matched /\ last.result.action = "allow"

KeywordEvaluated == Evaluated /\ last.rule.rule_type = "keyword_filter"

\* the keywords the rule iterates over
ConfiguredKeywords(rule) ==
  IF Has(rule.rule_config, "keywords") /\ Iterable(rule.rule_config.keywords)
  THEN Elements(rule.rule_config.keywords) ELSE << >>

\* max_occurrences with its default
Threshold(rule) ==
  IF Has(rule.rule_config, "max_occurrences") THEN rule.rule_config.max_occurrences ELSE 1

\* some keyword of the rule occurs in the message text
KeywordOccurs(rule, message) ==
  \E i \in 1..Len(ConfiguredKeywords(rule)) :
    LET keyword == ConfiguredKeywords(rule)[i]
    IN  /\ IsStr(keyword)
        /\ RegExpValid(toLowerCase(keyword.str))
        /\ GlobalMatchCount(RegExpTokens(toLowerCase(keyword.str), 1),
                            NonEmptyText(message), 1, TRUE) > 0

\* C28 as stated: a keyword_filter rule is matched only if one of its
\* keywords occurs in the text, whatever max_occurrences and keyword list
C28_MatchedOnlyOnOccurrence ==
  (KeywordEvaluated /\ last.result.matched) => KeywordOccurs(last.rule, last.message)

\* C28: with max_occurrences of 1 or more (or left out) a keyword_filter rule
\* is matched only if one of its keywords occurs in the text; with
\* max_occurrences of 0 or less it is matched on every text, unless the
\* evaluation fails
C28_MatchedAtThreshold ==
  KeywordEvaluated =>
    /\ (last.result.matched /\ Threshold(last.rule) >= 1) =>
         KeywordOccurs(last.rule, last.message)
    /\ (Threshold(last.rule) <= 0 /\ last.result.reason.text # "Evaluation error") =>
         last.result.matched

\* a rule with max_occurrences 0 matched by a text that holds no keyword
C28_Witness ==
  /\ KeywordEvaluated
  /\ Threshold(last.rule) <= 0
  /\ ConfiguredKeywords(last.rule) # << >>
  /\ ~ KeywordOccurs(last.rule, last.message)
  /\ last.result.matched

-----------------------------------------------------------------------------
(* The order of the audit log under concurrent requests, checked under     *)
(* SpecAudit                                                               *)

\* C29 as stated: the audit entries of one rule are appended in the order in
\* which the mutations were applied to the rule: when the entry of a
\* mutation is appended, no mutation applied to the same rule before it is
\* still waiting for its entry
C29_AuditInMutationOrder ==
  [][Len(pending') < Len(pending) =>
       \E i \in 1..Len(pending) :
         /\ pending' = Others(i)
         /\ \A j \in 1..(i - 1) : pending[j].ruleId # pending[i].ruleId]_vars

\* C29: every audit entry is appended after the rule write of its own
\* mutation, as a write of its own that leaves the rules alone; the entries
\* of concurrent requests on one rule are appended in either order
C29_AuditAfterOwnWrite ==
  [][rule_audit_log' # rule_audit_log =>
       /\ privacy_rules' = privacy_rules
       /\ \E i \in 1..Len(pending) :
            LET p == pending[i] IN
            /\ pending' = Others(i)
            /\ rule_audit_log' =
                 Append(rule_audit_log,
                        [rule_id |-> p.ruleId, action |-> p.action, user_id |-> p.userId,
                         changes |-> p.changes, created_at |-> now])]_vars

\* the CREATE entry of a rule appended after its DELETE entry: the rule was
\* created first, since only a stored rule is deleted
C29_Witness ==
  \E i, j \in 1..Len(rule_audit_log) :
    /\ i < j
    /\ rule_audit_log[i].action = "DELETE"
    /\ rule_audit_log[j].action = "CREATE"
    /\ rule_audit_log[i].rule_id = rule_audit_log[j].rule_id

-----------------------------------------------------------------------------
(* Evaluation as a read, checked under Spec *)

\* C26: an evaluation leaves the rules, the threat patterns and the audit
\* log unchanged and appends no audit record, and every evaluation of the
\* same message against the same stored rules returns the same
\* final_action, rule_evaluations and blocking_rules
C26_ReadOnlyDeterministic ==
  [][(last' # last /\ last'.op = "evaluateRules") =>
       /\ UNCHANGED <<privacy_rules, rule_audit_log, threat_patterns, nextId, pending,
                    audit_errors, seed_pc, rule_templates, selected>>
       /\ \A rules \in getUserRules(privacy_rules, last'.userId, [is_active |-> TRUE]) :
            evaluateRules(rules, last'.message) = last'.result]_vars

====
